---- MODULE Spec2Model ----
(***************************************************************************)
(* 1000words: the metadata index backends (SQLite, Postgres, DynamoDB),   *)
(* their query functions, and the editor page's publish gate.             *)
(*                                                                         *)
(* Strings whose characters matter (titles, excerpts, tags) are sequences  *)
(* of one-character strings; opaque strings (author DIDs, storage keys)    *)
(* are TLA+ strings.  Timestamps are millisecond ticks of a clock.         *)
(***************************************************************************)
EXTENDS Integers, Sequences, FiniteSets, TLC

\* ------------------------------------------------------------------ bounds
MaxIds == 2
MaxTime == 1
MaxPages == 4
MaxRows == 3
MaxQueryTime == 2
MaxPieces == 2
MaxPageSize == 3

\* ------------------------------------------------------- program constants
DefaultLimit == 20
MinWords == 950
CountLimit == 1000
MaxWords == 1000
DefaultMaxResults == 100

\* ------------------------------------------------------------ value domains
Backends == {"sqlite", "postgres", "dynamodb"}
Callers == {1, 2}
Ids == 1..MaxIds

\* JavaScript undefined and SQL NULL, one marker per value type
Undefined == "undefined"
UndefinedText == <<"undefined">>
UndefinedTags == <<(<<"undefined">>)>>
UndefinedNum == 0 - 1
NullText == <<"null">>
NullTags == <<(<<"null">>)>>

\* ------------------------------------------------------------------ strings
Lower(c) ==
  CASE c = "A" -> "a" [] c = "B" -> "b" [] c = "C" -> "c" [] c = "F" -> "f"
    [] c = "G" -> "g" [] c = "I" -> "i" [] c = "M" -> "m" [] c = "S" -> "s"
    [] OTHER -> c

ToLowerCase(s) == [i \in 1..Len(s) |-> Lower(s[i])]

RECURSIVE Concat(_)
Concat(ss) == IF ss = <<>> THEN <<>> ELSE Head(ss) \o Concat(Tail(ss))

\* s.includes(sub): sub occurs in s as a contiguous subsequence
Includes(s, sub) ==
  \E i \in 0..(Len(s) - Len(sub)) : \A j \in 1..Len(sub) : s[i + j] = sub[j]

\* JSON.stringify of one string: quotes around it, quote and backslash escaped
JsonString(s) ==
  <<"\"">> \o
  Concat([i \in 1..Len(s) |->
            IF s[i] = "\"" \/ s[i] = "\\" THEN <<"\\", s[i]>> ELSE <<s[i]>>]) \o
  <<"\"">>

\* JSON.stringify of an array of strings
JsonStringify(tags) ==
  <<"[">> \o
  Concat([i \in 1..Len(tags) |->
            IF i = 1 THEN JsonString(tags[i]) ELSE <<",">> \o JsonString(tags[i])]) \o
  <<"]">>

\* JSON.parse of the text of an array of strings: a scan that collects the
\* characters between quotes, taking an escaped character literally
RECURSIVE JsonScan(_, _, _, _, _)
JsonScan(s, i, inStr, cur, acc) ==
  IF i > Len(s) THEN acc
  ELSE IF ~inStr
    THEN IF s[i] = "\"" THEN JsonScan(s, i + 1, TRUE, <<>>, acc)
         ELSE JsonScan(s, i + 1, FALSE, cur, acc)
    ELSE IF s[i] = "\\" THEN JsonScan(s, i + 2, TRUE, Append(cur, s[i + 1]), acc)
         ELSE IF s[i] = "\"" THEN JsonScan(s, i + 1, FALSE, <<>>, Append(acc, cur))
         ELSE JsonScan(s, i + 1, TRUE, Append(cur, s[i]), acc)

JsonParse(s) == JsonScan(s, 1, FALSE, <<>>, <<>>)

\* SQL LIKE without ESCAPE: % is any run of characters, _ any one character.
\* fold is TRUE where letters compare case-insensitively (SQLite LIKE, Postgres
\* ILIKE).
RECURSIVE LikeFrom(_, _, _, _, _)
LikeFrom(p, i, s, j, fold) ==
  IF i > Len(p) THEN j > Len(s)
  ELSE IF p[i] = "%"
    THEN \E k \in j..(Len(s) + 1) : LikeFrom(p, i + 1, s, k, fold)
    ELSE /\ j <= Len(s)
         /\ \/ p[i] = "_"
            \/ p[i] = s[j]
            \/ fold /\ Lower(p[i]) = Lower(s[j])
         /\ LikeFrom(p, i + 1, s, j + 1, fold)

Like(s, p, fold) == LikeFrom(p, 1, s, 1, fold)

\* ------------------------------------------------------------- call inputs
Str_a == <<"a">>
Str_b == <<"b">>
Tag_fic == <<"f", "i", "c">>
Tag_fam == <<"f", "a", "m">>
Tag_sci == <<"s", "c", "i">>
Tag_FIC == <<"F", "I", "C">>
Tag_pct == <<"%">>

\* CreateStoryInput values the callers pass
CreateInputs ==
  { [title |-> Str_a, authorDid |-> "did:1", authorName |-> "Ann", storageKey |-> "k1",
     wordCount |-> 950, excerpt |-> UndefinedText, tags |-> <<Tag_fic, Tag_fam>>],
    [title |-> Str_a, authorDid |-> "did:2", authorName |-> "Bob", storageKey |-> "k1",
     wordCount |-> 975, excerpt |-> <<>>, tags |-> UndefinedTags],
    [title |-> Str_b, authorDid |-> "did:1", authorName |-> "Ann", storageKey |-> "k2",
     wordCount |-> 1000, excerpt |-> <<"e">>, tags |-> <<>>] }

\* UpdateStoryInput values; a field left out is undefined
TitleOnly == [title |-> Str_b, excerpt |-> UndefinedText, tags |-> UndefinedTags,
              wordCount |-> UndefinedNum]
NoField == [title |-> UndefinedText, excerpt |-> UndefinedText, tags |-> UndefinedTags,
            wordCount |-> UndefinedNum]

UpdateInputs == {TitleOnly, NoField}

\* ---------------------------------------------------------------- the state
VARIABLES
  backend,   \* the index backend the application was configured with
  table,     \* the stories table: id -> row (SQL) or item (DynamoDB)
  nextId,    \* the next fresh id (crypto.randomUUID / gen_random_uuid)
  appClock,  \* the application's clock, in milliseconds (new Date())
  dbClock,   \* the Postgres server's clock (NOW())
  calls,     \* per caller: the index call in flight, between two awaits
  ev,        \* the step taken last and what it returned to its caller
  created,   \* id -> what create returned, until an update or delete of the id
  q,         \* a caller paging through query results: options, offset, pages read
  page,      \* the editor page's state: title, wordCount, editorContent, mode
  editor,    \* the text of the Tiptap document, or NoEditor
  drafts,    \* the draft store: localStorage entry, auto-save timer, pendingChanges
  history,   \* what has happened so far: the <<storageKey, id>> pairs created,
             \* and the ids a delete call has returned true for
  store,     \* the content store: its backend, files, directories, calls in flight
  auth       \* the auth client's module state, the auth store, auth calls in flight

vars == <<backend, table, nextId, appClock, dbClock, calls, ev, created, q, page,
          editor, drafts, history, store, auth>>

\* ------------------------------------------------------ rows and conversions
\* StoryRow -> StoryMetadata (SQLite)
SqliteRowToMetadata(row) ==
  [id |-> row.id, title |-> row.title, authorDid |-> row.author_did,
   authorName |-> row.author_name, storageKey |-> row.storage_key,
   wordCount |-> row.word_count,
   excerpt |-> IF row.excerpt = NullText THEN UndefinedText ELSE row.excerpt,
   tags |-> IF row.tags = NullText \/ row.tags = <<>> THEN UndefinedTags
            ELSE JsonParse(row.tags),
   publishedAt |-> row.published_at, updatedAt |-> row.updated_at,
   createdAt |-> row.created_at]

\* StoryRow -> StoryMetadata (Postgres)
PostgresRowToMetadata(row) ==
  [id |-> row.id, title |-> row.title, authorDid |-> row.author_did,
   authorName |-> row.author_name, storageKey |-> row.storage_key,
   wordCount |-> row.word_count,
   excerpt |-> IF row.excerpt = NullText THEN UndefinedText ELSE row.excerpt,
   tags |-> IF row.tags = NullTags THEN UndefinedTags ELSE row.tags,
   publishedAt |-> row.published_at, updatedAt |-> row.updated_at,
   createdAt |-> row.created_at]

\* StoryItem -> StoryMetadata (DynamoDB); an attribute the item lacks reads as
\* undefined
ItemToMetadata(item) ==
  [id |-> item.id, title |-> item.title, authorDid |-> item.authorDid,
   authorName |-> item.authorName, storageKey |-> item.storageKey,
   wordCount |-> item.wordCount, excerpt |-> item.excerpt, tags |-> item.tags,
   publishedAt |-> item.publishedAt, updatedAt |-> item.updatedAt,
   createdAt |-> item.createdAt]

ToMetadata(b, row) ==
  CASE b = "sqlite" -> SqliteRowToMetadata(row)
    [] b = "postgres" -> PostgresRowToMetadata(row)
    [] OTHER -> ItemToMetadata(row)

\* SqliteNewRow with an empty tag list stored as NULL
SqliteNewRowEmptyTagsNull(id, x, now) ==
  [id |-> id, title |-> x.title, author_did |-> x.authorDid,
   author_name |-> x.authorName, storage_key |-> x.storageKey,
   word_count |-> x.wordCount,
   excerpt |-> IF x.excerpt = UndefinedText THEN NullText ELSE x.excerpt,
   tags |-> IF x.tags = UndefinedTags \/ x.tags = <<>> THEN NullText
            ELSE JsonStringify(x.tags),
   published_at |-> now, updated_at |-> now, created_at |-> now]

\* the row SQLite's INSERT writes for input x
SqliteNewRow(id, x, now) ==
  [id |-> id, title |-> x.title, author_did |-> x.authorDid,
   author_name |-> x.authorName, storage_key |-> x.storageKey,
   word_count |-> x.wordCount,
   excerpt |-> IF x.excerpt = UndefinedText THEN NullText ELSE x.excerpt,
   tags |-> IF x.tags = UndefinedTags THEN NullText ELSE JsonStringify(x.tags),
   published_at |-> now, updated_at |-> now, created_at |-> now]

\* the row Postgres's INSERT writes for input x; id and the three timestamps
\* are the column defaults
PostgresNewRow(id, x, now) ==
  [id |-> id, title |-> x.title, author_did |-> x.authorDid,
   author_name |-> x.authorName, storage_key |-> x.storageKey,
   word_count |-> x.wordCount,
   excerpt |-> IF x.excerpt = UndefinedText THEN NullText ELSE x.excerpt,
   tags |-> IF x.tags = UndefinedTags THEN NullTags ELSE x.tags,
   published_at |-> now, updated_at |-> now, created_at |-> now]

\* the item DynamoDB's create puts for input x
DynamoNewItem(id, x, now) ==
  [pk |-> <<"STORY#", id>>, sk |-> <<"STORY#", id>>,
   gsi1pk |-> <<"AUTHOR#", x.authorDid>>, gsi1sk |-> now,
   id |-> id, title |-> x.title, authorDid |-> x.authorDid,
   authorName |-> x.authorName, storageKey |-> x.storageKey,
   wordCount |-> x.wordCount, excerpt |-> x.excerpt, tags |-> x.tags,
   publishedAt |-> now, updatedAt |-> now, createdAt |-> now]

\* the item an UpdateCommand starts from when no item has the key: the key
\* attributes alone
DynamoKeyOnlyItem(id) ==
  [pk |-> <<"STORY#", id>>, sk |-> <<"STORY#", id>>,
   gsi1pk |-> <<Undefined>>, gsi1sk |-> UndefinedNum,
   id |-> UndefinedNum, title |-> UndefinedText, authorDid |-> Undefined,
   authorName |-> Undefined, storageKey |-> Undefined,
   wordCount |-> UndefinedNum, excerpt |-> UndefinedText, tags |-> UndefinedTags,
   publishedAt |-> UndefinedNum, updatedAt |-> UndefinedNum,
   createdAt |-> UndefinedNum]

\* the storage_key UNIQUE constraint of the two SQL schemas: is key k taken?
UniqueViolation(t, k) ==
  \E i \in DOMAIN t : t[i].storage_key = k

\* get(id): the metadata of the row stored under id, as a set of at most one
GetRecs(b, t, id) ==
  IF id \in DOMAIN t THEN {ToMetadata(b, t[id])} ELSE {}

NoFields(p) ==
  /\ p.title = UndefinedText
  /\ p.excerpt = UndefinedText
  /\ p.tags = UndefinedTags
  /\ p.wordCount = UndefinedNum

\* SqliteUpdateRow that also writes created_at
SqliteUpdateRowResetsCreated(row, p, now) ==
  [row EXCEPT
     !.title = IF p.title = UndefinedText THEN @ ELSE p.title,
     !.excerpt = IF p.excerpt = UndefinedText THEN @ ELSE p.excerpt,
     !.tags = IF p.tags = UndefinedTags THEN @ ELSE JsonStringify(p.tags),
     !.word_count = IF p.wordCount = UndefinedNum THEN @ ELSE p.wordCount,
     !.updated_at = now,
     !.created_at = now]

\* UPDATE stories SET ... WHERE id = ? (SQLite)
SqliteUpdateRow(row, p, now) ==
  [row EXCEPT
     !.title = IF p.title = UndefinedText THEN @ ELSE p.title,
     !.excerpt = IF p.excerpt = UndefinedText THEN @ ELSE p.excerpt,
     !.tags = IF p.tags = UndefinedTags THEN @ ELSE JsonStringify(p.tags),
     !.word_count = IF p.wordCount = UndefinedNum THEN @ ELSE p.wordCount,
     !.updated_at = now]

\* UPDATE stories SET ... WHERE id = $n RETURNING * (Postgres)
PostgresUpdateRow(row, p, now) ==
  [row EXCEPT
     !.title = IF p.title = UndefinedText THEN @ ELSE p.title,
     !.excerpt = IF p.excerpt = UndefinedText THEN @ ELSE p.excerpt,
     !.tags = IF p.tags = UndefinedTags THEN @ ELSE p.tags,
     !.word_count = IF p.wordCount = UndefinedNum THEN @ ELSE p.wordCount,
     !.updated_at = now]

\* an UpdateCommand that writes the four fields, named or not
DynamoUpdateItemWhole(item, p, now) ==
  [item EXCEPT
     !.title = IF p.title = UndefinedText THEN @ ELSE p.title,
     !.excerpt = p.excerpt,
     !.tags = p.tags,
     !.wordCount = IF p.wordCount = UndefinedNum THEN @ ELSE p.wordCount,
     !.updatedAt = now]

\* UpdateCommand SET ... (DynamoDB)
DynamoUpdateItem(item, p, now) ==
  [item EXCEPT
     !.title = IF p.title = UndefinedText THEN @ ELSE p.title,
     !.excerpt = IF p.excerpt = UndefinedText THEN @ ELSE p.excerpt,
     !.tags = IF p.tags = UndefinedTags THEN @ ELSE p.tags,
     !.wordCount = IF p.wordCount = UndefinedNum THEN @ ELSE p.wordCount,
     !.updatedAt = now]

\* ------------------------------------------------------------ calls, events
Idle == [op |-> "idle", pc |-> "idle", id |-> 0, p |-> {}, existing |-> {}]

\* a call between two awaits; existing is the record its first get(id) read,
\* kept where the rest of the call reads it

InFlight(op, pc, id, ps, existing) ==
  [op |-> op, pc |-> pc, id |-> id, p |-> ps, existing |-> existing]

\* what a call hands back to its caller: kind is "record", "null", "true",
\* "false" or "ConflictError"; "pending" marks a step that returns nothing yet
Out(kind, recs) == [kind |-> kind, recs |-> recs]

RecOrNull(recs) == Out(IF recs = {} THEN "null" ELSE "record", recs)

\* the step taken last: the call it belongs to, its arguments, what it returned
Event(op, id, xs, ps, out) ==
  [op |-> op, id |-> id, x |-> xs, p |-> ps, out |-> out]

Pending == Out("pending", {})

\* ------------------------------------------------- the backends' statements
\* INSERT INTO stories ... (SQLite) followed by get(id); the UNIQUE constraint
\* on storage_key makes the INSERT throw
SqliteCreateResult(t, id, x, now) ==
  IF UniqueViolation(t, x.storageKey)
    THEN [table |-> t, out |-> Out("ConflictError", {})]
    ELSE LET t2 == (id :> SqliteNewRow(id, x, now)) @@ t
         IN [table |-> t2, out |-> RecOrNull(GetRecs("sqlite", t2, id))]

\* INSERT INTO stories ... RETURNING * (Postgres)
PostgresCreateResult(t, id, x, now) ==
  IF UniqueViolation(t, x.storageKey)
    THEN [table |-> t, out |-> Out("ConflictError", {})]
    ELSE LET row == PostgresNewRow(id, x, now)
         IN [table |-> (id :> row) @@ t,
             out |-> Out("record", {PostgresRowToMetadata(row)})]

\* PutCommand of the new item under its fresh key, without a condition
DynamoCreateResult(t, id, x, now) ==
  LET item == DynamoNewItem(id, x, now)
  IN [table |-> (id :> item) @@ t, out |-> Out("record", {ItemToMetadata(item)})]

\* UPDATE stories SET ... WHERE id = ? (SQLite), then get(id)
SqliteUpdateResult(t, id, p, now) ==
  LET t2 == IF id \in DOMAIN t THEN [t EXCEPT ![id] = SqliteUpdateRow(@, p, now)]
            ELSE t
  IN [table |-> t2, out |-> RecOrNull(GetRecs("sqlite", t2, id))]

\* update(id, input) of Postgres: get(id) when the input names no field, else
\* one UPDATE ... WHERE id = $n RETURNING *
PostgresUpdateResult(t, id, p, now) ==
  IF NoFields(p) THEN [table |-> t, out |-> RecOrNull(GetRecs("postgres", t, id))]
  ELSE IF id \notin DOMAIN t THEN [table |-> t, out |-> Out("null", {})]
  ELSE LET row == PostgresUpdateRow(t[id], p, now)
       IN [table |-> [t EXCEPT ![id] = row],
           out |-> Out("record", {PostgresRowToMetadata(row)})]

\* UpdateCommand SET ... on the key: it writes an item whether or not one is
\* stored under the key
DynamoUpdateTable(t, id, p, now) ==
  LET old == IF id \in DOMAIN t THEN t[id] ELSE DynamoKeyOnlyItem(id)
  IN (id :> DynamoUpdateItem(old, p, now)) @@ t

\* DeleteRow that removes nothing
DeleteRowKeeps(t, id) == t

\* DELETE FROM stories WHERE id = ? / DeleteCommand
DeleteRow(t, id) == [i \in DOMAIN t \ {id} |-> t[i]]

Track(id, out, x) ==
  IF out.kind = "record" THEN (id :> [rec |-> out.recs, x |-> x]) @@ created
  ELSE created

Untrack(id) == [i \in DOMAIN created \ {id} |-> created[i]]

\* ------------------------------------------------------------------ queries
\* QueryOptions; a field left out is undefined
Options(authorDid, tags, sortBy, sortOrder, limit) ==
  [authorDid |-> authorDid, tags |-> tags, sortBy |-> sortBy,
   sortOrder |-> sortOrder, limit |-> limit, offset |-> UndefinedNum]

\* a JavaScript string in a condition: undefined and "" are falsy
Truthy(s) == s # Undefined /\ s # ""

\* options?.limit ?? 20, options?.offset ?? 0
LimitOf(o) == IF o.limit = UndefinedNum THEN DefaultLimit ELSE o.limit
OffsetOf(o) == IF o.offset = UndefinedNum THEN 0 ELSE o.offset

Min(a, b) == IF a <= b THEN a ELSE b

\* array.slice(from, to), zero-based, to exclusive
Slice(s, from, to) == SubSeq(s, from + 1, Min(to, Len(s)))

\* the orders a set of ids can be listed in
Perms(S) ==
  { f \in [1..Cardinality(S) -> S] :
      \A i \in 1..Cardinality(S) : \A j \in 1..Cardinality(S) : i # j => f[i] # f[j] }

\* code units of the characters in use, the order of SQLite's BINARY collation
CharCode(c) ==
  CASE c = "\"" -> 34 [] c = "%" -> 37 [] c = "," -> 44
    [] c = "A" -> 65 [] c = "B" -> 66 [] c = "C" -> 67 [] c = "F" -> 70
    [] c = "I" -> 73 [] c = "[" -> 91 [] c = "\\" -> 92 [] c = "]" -> 93
    [] c = "_" -> 95 [] c = "a" -> 97 [] c = "b" -> 98 [] c = "c" -> 99
    [] c = "e" -> 101 [] c = "f" -> 102 [] c = "i" -> 105 [] c = "m" -> 109
    [] c = "s" -> 115 [] c = "." -> 46 [] c = "/" -> 47 [] c = "d" -> 100
    [] c = "t" -> 116 [] c = "y" -> 121 [] OTHER -> 120

\* a < b, character by character, a proper prefix first
RECURSIVE TextLess(_, _)
TextLess(a, b) ==
  IF b = <<>> THEN FALSE
  ELSE IF a = <<>> THEN TRUE
  ELSE IF a[1] # b[1] THEN CharCode(a[1]) < CharCode(b[1])
  ELSE TextLess(Tail(a), Tail(b))

\* a.localeCompare(b) < 0: letters first compared without case, then lower
\* case before upper case
LocaleLess(a, b) ==
  \/ TextLess(ToLowerCase(a), ToLowerCase(b))
  \/ ToLowerCase(a) = ToLowerCase(b) /\ TextLess(b, a)

\* the sort column of the SQL backends
GetSortField(sortBy) ==
  CASE sortBy = "publishedAt" -> "published_at"
    [] sortBy = "updatedAt" -> "updated_at"
    [] sortBy = "createdAt" -> "created_at"
    [] sortBy = "title" -> "title"
    [] OTHER -> "published_at"

\* ORDER BY column: row r1 may not come after row r2
SqlBefore(r1, r2, column, asc) ==
  LET less(x, y) == CASE column = "title" -> TextLess(x.title, y.title)
                      [] column = "updated_at" -> x.updated_at < y.updated_at
                      [] column = "created_at" -> x.created_at < y.created_at
                      [] OTHER -> x.published_at < y.published_at
  IN IF asc THEN ~less(r2, r1) ELSE ~less(r1, r2)

\* the comparator of scanStories: item i1 may not come after item i2
ItemBefore(i1, i2, sortField, asc) ==
  LET less(x, y) == CASE sortField = "title" -> LocaleLess(x.title, y.title)
                      [] sortField = "updatedAt" -> x.updatedAt < y.updatedAt
                      [] sortField = "createdAt" -> x.createdAt < y.createdAt
                      [] OTHER -> x.publishedAt < y.publishedAt
  IN IF asc THEN ~less(i2, i1) ELSE ~less(i1, i2)

\* the WHERE clause of query (SQLite): the tags column is JSON text, one LIKE
\* per tag
SqliteWhere(row, o) ==
  /\ Truthy(o.authorDid) => row.author_did = o.authorDid
  /\ (o.tags # UndefinedTags /\ Len(o.tags) > 0) =>
       \A i \in 1..Len(o.tags) :
         /\ row.tags # NullText
         /\ Like(row.tags, <<"%", "\"">> \o o.tags[i] \o <<"\"", "%">>, TRUE)

\* the WHERE clause of query (Postgres): tags @> $n on a TEXT[] column
PostgresWhere(row, o) ==
  /\ Truthy(o.authorDid) => row.author_did = o.authorDid
  /\ (o.tags # UndefinedTags /\ Len(o.tags) > 0) =>
       /\ row.tags # NullTags
       /\ \A i \in 1..Len(o.tags) : \E j \in 1..Len(row.tags) : row.tags[j] = o.tags[i]

\* options.tags.every((tag) => s.tags?.includes(tag))
EveryTagIncluded(tags, wanted) ==
  \A i \in 1..Len(wanted) :
    tags # UndefinedTags /\ \E j \in 1..Len(tags) : tags[j] = wanted[i]

\* QueryResult
Result(stories, total, hasMore) ==
  [stories |-> stories, total |-> total, hasMore |-> hasMore]

\* the results query(o) can return on the SQL backends: COUNT(*) over the WHERE
\* clause, then ORDER BY, LIMIT, OFFSET; rows with equal sort keys come in any
\* order
SqlQuery(b, t, o) ==
  LET where(row) == IF b = "sqlite" THEN SqliteWhere(row, o) ELSE PostgresWhere(row, o)
      M == {id \in DOMAIN t : where(t[id])}
      total == Cardinality(M)
      column == GetSortField(IF o.sortBy = Undefined THEN "publishedAt" ELSE o.sortBy)
      asc == o.sortOrder = "asc"
      limit == LimitOf(o)
      offset == OffsetOf(o)
      sorted == {ord \in Perms(M) :
                   \A i \in 1..total : \A j \in 1..total :
                     i < j => SqlBefore(t[ord[i]], t[ord[j]], column, asc)}
  IN { LET rows == Slice(ord, offset, offset + limit)
           stories == [i \in 1..Len(rows) |-> ToMetadata(b, t[rows[i]])]
       IN Result(stories, total, offset + Len(stories) < total) : ord \in sorted }

\* queryByAuthor: a Query on index gsi1, whose sort key is gsi1sk, reading at
\* most Limit items; LastEvaluatedKey is set when the read stopped at the Limit
QueryByAuthor(t, authorDid, o) ==
  LET P == {id \in DOMAIN t : t[id].gsi1pk = <<"AUTHOR#", authorDid>>}
      n == Cardinality(P)
      asc == o.sortOrder = "asc"
      limit == LimitOf(o)
      sorted == {ord \in Perms(P) :
                   \A i \in 1..n : \A j \in 1..n :
                     i < j => IF asc THEN t[ord[i]].gsi1sk <= t[ord[j]].gsi1sk
                                     ELSE t[ord[i]].gsi1sk >= t[ord[j]].gsi1sk}
  IN { LET items == Slice(ord, 0, limit)
           stories == [i \in 1..Len(items) |-> ItemToMetadata(t[items[i]])]
           filtered == IF o.tags # UndefinedTags
                       THEN SelectSeq(stories, LAMBDA s : EveryTagIncluded(s.tags, o.tags))
                       ELSE stories
       IN Result(Slice(filtered, 0, limit), Len(items), n >= limit) : ord \in sorted }

\* scanStories: a Scan reading at most 2 * limit items, in the table's own
\* order; then the tag filter, a stable sort and the first limit items
ScanStories(t, o) ==
  LET n == Cardinality(DOMAIN t)
      limit == LimitOf(o)
      asc == o.sortOrder = "asc"
      sortField == IF o.sortBy = Undefined THEN "publishedAt" ELSE o.sortBy
      scans == {S \in SUBSET DOMAIN t : Cardinality(S) = Min(2 * limit, n)}
      kept(S) == IF o.tags # UndefinedTags /\ Len(o.tags) > 0
                 THEN {id \in S : EveryTagIncluded(t[id].tags, o.tags)}
                 ELSE S
      sorted(S) == {ord \in Perms(kept(S)) :
                      \A i \in 1..Len(ord) : \A j \in 1..Len(ord) :
                        i < j => ItemBefore(t[ord[i]], t[ord[j]], sortField, asc)}
  IN UNION { { LET limited == Slice(ord, 0, limit)
                   stories == [i \in 1..Len(limited) |-> ItemToMetadata(t[limited[i]])]
               IN Result(stories, Cardinality(S), n >= 2 * limit) : ord \in sorted(S) }
             : S \in scans }

\* query (DynamoDB)
DynamoQuery(t, o) ==
  IF Truthy(o.authorDid) THEN QueryByAuthor(t, o.authorDid, o) ELSE ScanStories(t, o)

\* query(options) of the configured backend: the results it can return
Query(b, t, o) == IF b = "dynamodb" THEN DynamoQuery(t, o) ELSE SqlQuery(b, t, o)

StoryIds(stories) == [i \in 1..Len(stories) |-> stories[i].id]

NoResult == Result(<<>>, UndefinedNum, FALSE)

\* no caller is paging
NotQuerying ==
  [phase |-> "none", o |-> Options(Undefined, UndefinedTags, Undefined, Undefined, UndefinedNum),
   offset |-> 0, pages |-> 0, acc |-> <<>>, last |-> NoResult, full |-> NoResult]

\* ------------------------------------------------------------------ search
\* SearchOptions; a field left out is undefined
SearchOptions(query, authorDid, limit, offset) ==
  [query |-> query, authorDid |-> authorDid, limit |-> limit, offset |-> offset]

\* `%${options.query}%`
SearchPattern(query) == <<"%">> \o query \o <<"%">>

\* the WHERE clause of search on the SQL backends: title LIKE ? OR excerpt
\* LIKE ? (SQLite), title ILIKE $1 OR excerpt ILIKE $1 (Postgres); both compare
\* the letters in use without case; a NULL excerpt matches nothing
SqlSearchWhere(row, so) ==
  /\ \/ Like(row.title, SearchPattern(so.query), TRUE)
     \/ row.excerpt # NullText /\ Like(row.excerpt, SearchPattern(so.query), TRUE)
  /\ Truthy(so.authorDid) => row.author_did = so.authorDid

\* search on the SQL backends: COUNT(*), then ORDER BY published_at DESC,
\* LIMIT, OFFSET
SqlSearch(b, t, so) ==
  LET M == {id \in DOMAIN t : SqlSearchWhere(t[id], so)}
      total == Cardinality(M)
      limit == LimitOf(so)
      offset == OffsetOf(so)
      sorted == {ord \in Perms(M) :
                   \A i \in 1..total : \A j \in 1..total :
                     i < j => SqlBefore(t[ord[i]], t[ord[j]], "published_at", FALSE)}
  IN { LET rows == Slice(ord, offset, offset + limit)
           stories == [i \in 1..Len(rows) |-> ToMetadata(b, t[rows[i]])]
       IN Result(stories, total, offset + Len(stories) < total) : ord \in sorted }

\* the filter of search (DynamoDB) on a scanned item
DynamoSearchFilter(item, so) ==
  LET query == ToLowerCase(so.query)
  IN /\ \/ Includes(ToLowerCase(item.title), query)
        \/ item.excerpt # UndefinedText /\ Includes(ToLowerCase(item.excerpt), query)
     /\ Truthy(so.authorDid) => item.authorDid = so.authorDid

\* search (DynamoDB): a Scan of the table, the filters, a stable sort by
\* publishedAt descending, slice(offset, offset + limit)
DynamoSearch(t, so) ==
  LET M == {id \in DOMAIN t : DynamoSearchFilter(t[id], so)}
      total == Cardinality(M)
      limit == LimitOf(so)
      offset == OffsetOf(so)
      sorted == {ord \in Perms(M) :
                   \A i \in 1..total : \A j \in 1..total :
                     i < j => ItemBefore(t[ord[i]], t[ord[j]], "publishedAt", FALSE)}
  IN { LET paginated == Slice(ord, offset, offset + limit)
           stories == [i \in 1..Len(paginated) |-> ItemToMetadata(t[paginated[i]])]
       IN Result(stories, total, offset + Len(paginated) < total) : ord \in sorted }

\* search(options) of the configured backend: the results it can return
Search(b, t, so) == IF b = "dynamodb" THEN DynamoSearch(t, so) ELSE SqlSearch(b, t, so)

\* listByAuthor(authorDid, options): query({...options, authorDid}) on the SQL
\* backends, queryByAuthor(authorDid, options) on DynamoDB
ListByAuthor(b, t, authorDid, o) ==
  IF b = "dynamodb" THEN QueryByAuthor(t, authorDid, o)
  ELSE SqlQuery(b, t, [o EXCEPT !.authorDid = authorDid])

\* count(options): the total of query({...options, limit: 1, offset: 0}) on
\* the SQL backends, of query({...options, limit: 1000}) on DynamoDB
Count(b, t, o) ==
  IF b = "dynamodb"
  THEN {r.total : r \in DynamoQuery(t, [o EXCEPT !.limit = CountLimit])}
  ELSE {r.total : r \in SqlQuery(b, t, [o EXCEPT !.limit = 1, !.offset = 0])}

\* ------------------------------------------------------------- editor page
\* what the user types into the editor, in pieces: one word, 949 or 1000
\* words with single spaces between them, or one white-space character
TextPieces == {"w1", "w949", "w1000", " "}

WordsIn(piece) ==
  CASE piece = "w1" -> 1 [] piece = "w949" -> 949 [] piece = "w1000" -> 1000 [] OTHER -> 0

\* String.prototype.trim
RECURSIVE TrimStart(_)
TrimStart(s) == IF s # <<>> /\ Head(s) = " " THEN TrimStart(Tail(s)) ELSE s

RECURSIVE TrimEnd(_)
TrimEnd(s) ==
  IF s # <<>> /\ s[Len(s)] = " " THEN TrimEnd(SubSeq(s, 1, Len(s) - 1)) ELSE s

Trim(s) == TrimEnd(TrimStart(s))

\* text.trim().split(/\s+/).filter((w) => w.length > 0).length: the runs of
\* characters other than white space; pieces typed without white space between
\* them join their last and first words
RECURSIVE CountFrom(_, _, _)
CountFrom(text, i, inWord) ==
  IF i > Len(text) THEN 0
  ELSE IF text[i] = " " THEN CountFrom(text, i + 1, FALSE)
  ELSE WordsIn(text[i]) - (IF inWord THEN 1 ELSE 0) + CountFrom(text, i + 1, TRUE)

CountWords(text) == CountFrom(Trim(text), 1, FALSE)

\* editor.getHTML() of a document with text t, and the text of the document
\* setContent(html) builds; "" is the empty sequence
GetHTML(t) == <<"<p>">> \o t \o <<"</p>">>
ParseHTML(html) == SelectSeq(html, LAMBDA c : c # "<p>" /\ c # "</p>")

\* wordCountStatus with the lower limit one word too low
WordCountStatusLow949(w) ==
  IF w = 0 THEN "neutral"
  ELSE IF w < MinWords - 1 THEN "low"
  ELSE IF w <= MaxWords THEN "good"
  ELSE "high"

\* wordCountStatus
WordCountStatus(w) ==
  IF w = 0 THEN "neutral"
  ELSE IF w < MinWords THEN "low"
  ELSE IF w <= MaxWords THEN "good"
  ELSE "high"

\* the Publish Story button is shown and not disabled
PublishEnabled(pg) ==
  /\ pg.view = "mounted" /\ ~pg.isPreviewMode
  /\ ~(WordCountStatus(pg.wordCount) # "good" \/ Trim(pg.storyTitle) = <<>>)

\* no Editor component is mounted (editorRef is null)
NoEditor == <<"none">>

\* the draft store: localStorage entry, armed auto-save timer, pendingChanges
NoDraft == {}
DraftOf(title, content) == {[title |-> title, content |-> content]}

\* markDirty(title, content): the new timer replaces the armed one
MarkDirty(d, title, content) ==
  [d EXCEPT !.pendingChanges = TRUE, !.timer = DraftOf(title, content)]

\* handleEditorUpdate(html, text)
HandleEditorUpdate(pg, html, text) ==
  [pg EXCEPT !.editorContent = html, !.wordCount = CountWords(text)]

\* the page before it is mounted; a behaviour is one visit of the page
PageInit ==
  [view |-> "unmounted", storyTitle |-> <<>>, wordCount |-> 0, editorContent |-> <<>>,
   isPreviewMode |-> FALSE, toSet |-> NoDraft]

\* a draft an earlier visit may have left in localStorage
StoredDrafts ==
  {NoDraft, DraftOf(<<" ", "x">>, GetHTML(<<"w949", " ", "w1">>)),
   DraftOf(<<" ">>, GetHTML(<<"w1000", " ", "w1">>))}

\* the draft store holding draft s, no timer armed
DraftStore(s) == [stored |-> s, timer |-> NoDraft, pendingChanges |-> FALSE]

EditorInit ==
  /\ page = PageInit
  /\ editor = NoEditor
  /\ drafts = DraftStore(NoDraft)

\* ------------------------------------------------------------ content store
\* the storage backends: S3StorageBackend, LocalStorageBackend
StoreKinds == {"s3", "local"}

\* a JavaScript string is a sequence of UTF-16 code units; "HS" and "LS" stand
\* for a high and a low surrogate. writeFile(path, content, "utf-8") and the
\* Body of PutObjectCommand store the string's UTF-8 encoding, written here as
\* its sequence of Unicode scalar values: a surrogate pair is one scalar, a
\* surrogate without its partner is replaced by U+FFFD
RECURSIVE Utf8Encode(_)
Utf8Encode(s) ==
  IF s = <<>> THEN <<>>
  ELSE IF Len(s) >= 2 /\ s[1] = "HS" /\ s[2] = "LS"
       THEN <<"U+10000">> \o Utf8Encode(SubSeq(s, 3, Len(s)))
  ELSE IF s[1] \in {"HS", "LS"} THEN <<"U+FFFD">> \o Utf8Encode(Tail(s))
  ELSE <<s[1]>> \o Utf8Encode(Tail(s))

\* readFile(path, "utf-8"), Body.transformToString(): the stored bytes as a
\* string; a scalar above U+FFFF becomes a surrogate pair
RECURSIVE Utf8Decode(_)
Utf8Decode(b) ==
  IF b = <<>> THEN <<>>
  ELSE IF b[1] = "U+10000" THEN <<"HS", "LS">> \o Utf8Decode(Tail(b))
  ELSE <<b[1]>> \o Utf8Decode(Tail(b))

\* the number of bytes of the encoding (stat's size, ContentLength)
RECURSIVE ByteLength(_)
ByteLength(b) ==
  IF b = <<>> THEN 0
  ELSE (CASE b[1] = "U+10000" -> 4 [] b[1] = "U+FFFD" -> 3 [] OTHER -> 1)
       + ByteLength(Tail(b))

\* string.startsWith(prefix), string.endsWith(suffix)
StartsWith(s, prefix) ==
  Len(prefix) <= Len(s) /\ SubSeq(s, 1, Len(prefix)) = prefix

EndsWith(s, suffix) ==
  Len(suffix) <= Len(s) /\ SubSeq(s, Len(s) - Len(suffix) + 1, Len(s)) = suffix

\* the position of the last "/" of a path, 0 when it has none
RECURSIVE LastSlash(_)
LastSlash(path) ==
  IF path = <<>> THEN 0
  ELSE IF path[Len(path)] = "/" THEN Len(path)
  ELSE LastSlash(SubSeq(path, 1, Len(path) - 1))

\* paths are relative to baseDir, which is the empty path: dirname(path) and
\* the name of the entry inside it
Dirname(path) == SubSeq(path, 1, LastSlash(path) - 1)
Basename(path) == SubSeq(path, LastSlash(path) + 1, Len(path))

\* join(dir, name)
Join(dir, name) == IF dir = <<>> THEN name ELSE dir \o <<"/">> \o name

\* join(baseDir, key) of a key or prefix: a trailing "/" is dropped
GetFullPath(key) ==
  IF key # <<>> /\ key[Len(key)] = "/" THEN SubSeq(key, 1, Len(key) - 1) ELSE key

\* the directories above a path, baseDir included
RECURSIVE Ancestors(_)
Ancestors(path) ==
  IF path = <<>> THEN {} ELSE {Dirname(path)} \cup Ancestors(Dirname(path))

\* a stored blob: the bytes and the time of the last write
Blob(bytes, mtime) == [bytes |-> bytes, mtime |-> mtime]

\* what a file-system call on a path meets
\*   "file", "dir": the path names a regular file, a directory
\*   "ENOTDIR": a component of the path above its last one is a file
\*   "ENOENT": nothing is there
Lookup(st, path) ==
  IF \E d \in Ancestors(path) : d \in DOMAIN st.files THEN "ENOTDIR"
  ELSE IF path \in DOMAIN st.files THEN "file"
  ELSE IF path \in st.dirs THEN "dir"
  ELSE "ENOENT"

\* error.code === "ENOENT" (local), error.name === "NoSuchKey" || "NotFound" (S3)
IsNotFoundError(kind, code) ==
  IF kind = "local" THEN code = "ENOENT" ELSE code \in {"NoSuchKey", "NotFound"}

\* what a content store call returns: kind is "content", "null", "true",
\* "false", "void", "meta", "list" or "error"; val holds the value
StoreOut(kind, val) == [kind |-> kind, val |-> val]

\* ListOptions; a field left out is undefined
ListOptions(prefix, maxResults, continuationToken) ==
  [prefix |-> prefix, maxResults |-> maxResults, continuationToken |-> continuationToken]

\* no caller is paging through list results
NoListing ==
  [phase |-> "none", opts |-> ListOptions(UndefinedText, UndefinedNum, UndefinedText),
   pages |-> 0, acc |-> <<>>, last |-> StoreOut("pending", {})]

\* no content store call in flight for a caller
StoreIdle ==
  [op |-> "idle", pc |-> "idle", key |-> <<>>, text |-> <<>>,
   opts |-> ListOptions(UndefinedText, UndefinedNum, UndefinedText),
   todo |-> <<>>, acc |-> <<>>, during |-> {}, alone |-> TRUE]

\* the step of the content store taken last and what it returned to its caller
StoreEvent(op, c, key, text, out) ==
  [op |-> op, caller |-> c, key |-> key, text |-> text, out |-> out,
   opts |-> ListOptions(UndefinedText, UndefinedNum, UndefinedText), during |-> {}]

\* an empty store of one kind, whose file system lists names in the given
\* order; the base directory is yet to be created. live holds the keys put and
\* not deleted since, each with the text put last, session a caller's paging
\* through list results
EmptyStore(kind, order) ==
  [kind |-> kind, files |-> <<>>, dirs |-> {}, open |-> {}, clock |-> 0,
   order |-> order,
   calls |-> [c \in Callers |-> StoreIdle],
   ev |-> StoreEvent("init", 0, <<>>, <<>>, StoreOut("pending", {})),
   live |-> <<>>, session |-> NoListing]

StoreInit == store = EmptyStore("s3", <<>>)

\* the function f without key k, and with k bound to v
Without(f, k) == [x \in DOMAIN f \ {k} |-> f[x]]
With(f, k, v) == [x \in DOMAIN f \cup {k} |-> IF x = k THEN v ELSE f[x]]

\* StoryFileMetadata of a stored blob
FileMetadata(st, key, path) ==
  [key |-> key, size |-> ByteLength(st.files[path].bytes),
   lastModified |-> st.files[path].mtime, of |-> "file"]

\* fs.stat of a directory: the directory's own size and mtime
DirMetadata(key) == [key |-> key, of |-> "dir"]

\* get(key)
\* local: readFile; S3: GetObjectCommand, NoSuchKey when the key has no object
StoreGet(st, key) ==
  IF st.kind = "s3"
  THEN IF key \in DOMAIN st.files
       THEN StoreOut("content", {Utf8Decode(st.files[key].bytes)})
       ELSE StoreOut("null", {})
  ELSE LET found == Lookup(st, GetFullPath(key))
       IN CASE found = "file" ->
                 StoreOut("content", {Utf8Decode(st.files[GetFullPath(key)].bytes)})
            [] found = "dir" -> StoreOut("error", {"EISDIR"})
            [] found = "ENOENT" -> StoreOut("null", {})
            [] OTHER -> StoreOut("error", {found})

\* exists(key)
\* local: stat succeeds on files and on directories; S3: HeadObjectCommand
StoreExists(st, key) ==
  IF st.kind = "s3"
  THEN StoreOut(IF key \in DOMAIN st.files THEN "true" ELSE "false", {})
  ELSE LET found == Lookup(st, GetFullPath(key))
       IN CASE found \in {"file", "dir"} -> StoreOut("true", {})
            [] found = "ENOENT" -> StoreOut("false", {})
            [] OTHER -> StoreOut("error", {found})

\* getMetadata(key)
StoreGetMetadata(st, key) ==
  IF st.kind = "s3"
  THEN IF key \in DOMAIN st.files
       THEN StoreOut("meta", {FileMetadata(st, key, key)})
       ELSE StoreOut("null", {})
  ELSE LET found == Lookup(st, GetFullPath(key))
       IN CASE found = "file" -> StoreOut("meta", {FileMetadata(st, key, GetFullPath(key))})
            [] found = "dir" -> StoreOut("meta", {DirMetadata(key)})
            [] found = "ENOENT" -> StoreOut("null", {})
            [] OTHER -> StoreOut("error", {found})

\* unlink(path) (local): a directory is not unlinked (EISDIR, EPERM on some
\* platforms); the descriptors open on the file keep its unlinked inode
LocalDelete(st, key) ==
  LET path == GetFullPath(key)
      found == Lookup(st, path)
  IN CASE found = "file" ->
            [st |-> [st EXCEPT !.files = Without(@, path),
                               !.open = {o \in @ : o[2] # path}],
             out |-> StoreOut("true", {})]
       [] found = "dir" -> [st |-> st, out |-> StoreOut("error", {"EISDIR"})]
       [] found = "ENOENT" -> [st |-> st, out |-> StoreOut("false", {})]
       [] OTHER -> [st |-> st, out |-> StoreOut("error", {found})]

\* mkdir(dirname(fullPath), {recursive: true}): throws when a component of the
\* directory's path is a file
Mkdir(st, dir) ==
  IF Lookup(st, dir) = "file" THEN [st |-> st, out |-> StoreOut("error", {"EEXIST"})]
  ELSE IF Lookup(st, dir) = "ENOTDIR" THEN [st |-> st, out |-> StoreOut("error", {"ENOTDIR"})]
  ELSE [st |-> [st EXCEPT !.dirs = @ \cup {dir} \cup Ancestors(dir)],
        out |-> StoreOut("void", {})]

\* writeFile opens the path with flag "w": the file is created or truncated;
\* caller c then holds a descriptor on it
OpenForWrite(st, c, path) ==
  LET found == Lookup(st, path)
  IN CASE found = "dir" -> [st |-> st, out |-> StoreOut("error", {"EISDIR"})]
       [] found = "ENOTDIR" -> [st |-> st, out |-> StoreOut("error", {"ENOTDIR"})]
       [] found = "ENOENT" /\ Dirname(path) \notin st.dirs ->
            [st |-> st, out |-> StoreOut("error", {"ENOENT"})]
       [] OTHER ->
            [st |-> [st EXCEPT !.files = With(@, path, Blob(<<>>, st.clock)),
                               !.open = @ \cup {<<c, path>>}],
             out |-> StoreOut("void", {})]

\* bytes written at offset 0 over what the file holds
Overwrite(old, bytes) == bytes \o SubSeq(old, Len(bytes) + 1, Len(old))

\* writeFile writes the bytes through its descriptor, at offset 0, and closes
\* it; a file unlinked since the open is written to without being seen again
WriteAndClose(st, c, path, bytes) ==
  IF <<c, path>> \in st.open
  THEN [st EXCEPT !.files = With(@, path, Blob(Overwrite(@[path].bytes, bytes), st.clock)),
                  !.open = @ \ {<<c, path>>}]
  ELSE st

\* PutObjectCommand: the object is replaced as a whole
S3Put(st, key, bytes) == [st EXCEPT !.files = With(@, key, Blob(bytes, st.clock))]

\* DeleteObjectCommand: succeeds whether or not the key has an object
S3DeleteObject(st, key) == [st EXCEPT !.files = Without(@, key)]

\* String(n) of a non-negative integer: its decimal digits
Digit(d) ==
  CASE d = 0 -> "0" [] d = 1 -> "1" [] d = 2 -> "2" [] d = 3 -> "3" [] d = 4 -> "4"
    [] d = 5 -> "5" [] d = 6 -> "6" [] d = 7 -> "7" [] d = 8 -> "8" [] OTHER -> "9"

RECURSIVE NumberToString(_)
NumberToString(n) ==
  IF n < 10 THEN <<Digit(n)>> ELSE NumberToString(n \div 10) \o <<Digit(n % 10)>>

\* parseInt(s, 10): the number its leading decimal digits spell; NaN when it
\* has none
NaN == 0 - 2

DigitValue(ch) ==
  CASE ch = "0" -> 0 [] ch = "1" -> 1 [] ch = "2" -> 2 [] ch = "3" -> 3 [] ch = "4" -> 4
    [] ch = "5" -> 5 [] ch = "6" -> 6 [] ch = "7" -> 7 [] ch = "8" -> 8 [] ch = "9" -> 9
    [] OTHER -> UndefinedNum

RECURSIVE ParseDigits(_, _)
ParseDigits(s, n) ==
  IF s = <<>> \/ DigitValue(s[1]) = UndefinedNum THEN n
  ELSE ParseDigits(Tail(s), 10 * n + DigitValue(s[1]))

ParseInt(s) ==
  IF s = <<>> \/ DigitValue(s[1]) = UndefinedNum THEN NaN ELSE ParseDigits(s, 0)

\* ListResult
ListResult(files, continuationToken, hasMore) ==
  [files |-> files, continuationToken |-> continuationToken, hasMore |-> hasMore]

\* a text option that is given and not empty
TruthyText(s) == s # UndefinedText /\ s # <<>>

\* options?.maxResults ?? 100
MaxResultsOf(opts) == IF opts.maxResults = UndefinedNum THEN DefaultMaxResults ELSE opts.maxResults

\* a key before another in the order of their UTF-8 bytes
KeyLess(a, b) == TextLess(a, b)

\* the keys of a set in ascending order
SortedKeys(S) ==
  CHOOSE ord \in Perms(S) :
    \A i \in 1..Len(ord) : \A j \in 1..Len(ord) : i < j => KeyLess(ord[i], ord[j])

\* the S3 prefix of the configuration (none), getFullKey and stripPrefix
S3Prefix == <<>>

GetFullKey(key) == IF S3Prefix # <<>> THEN S3Prefix \o <<"/">> \o key ELSE key

StripPrefix(fullKey) ==
  IF S3Prefix # <<>> /\ StartsWith(fullKey, S3Prefix \o <<"/">>)
  THEN SubSeq(fullKey, Len(S3Prefix) + 2, Len(fullKey))
  ELSE fullKey

\* list(options) of S3: ListObjectsV2Command returns the keys that begin with
\* Prefix, in ascending order, MaxKeys at a time; the continuation token stands
\* for the last key of the page before
S3List(st, opts) ==
  LET prefix == IF TruthyText(opts.prefix) THEN GetFullKey(opts.prefix)
                ELSE IF S3Prefix # <<>> THEN S3Prefix \o <<"/">> ELSE <<>>
      matched == {k \in DOMAIN st.files : StartsWith(k, prefix)}
      after == IF opts.continuationToken = UndefinedText THEN matched
               ELSE {k \in matched : KeyLess(opts.continuationToken, k)}
      ord == SortedKeys(after)
      contents == SubSeq(ord, 1, Min(MaxResultsOf(opts), Len(ord)))
      truncated == Len(contents) < Len(ord)
      files == [i \in 1..Len(contents) |->
                  FileMetadata(st, StripPrefix(contents[i]), contents[i])]
  IN StoreOut("list",
       {ListResult(files,
                   IF truncated THEN contents[Len(contents)] ELSE UndefinedText,
                   truncated)})

\* the position of a path in the order the file system lists names in
RECURSIVE IndexOf(_, _)
IndexOf(ord, path) ==
  IF ord = <<>> THEN 1
  ELSE IF ord[1] = path THEN 1
  ELSE 1 + IndexOf(Tail(ord), path)

\* readdir(dir, {withFileTypes: true}): the entries of a directory, each with
\* its path and kind, in the file system's order
Readdir(st, dir) ==
  LET names == {p \in (DOMAIN st.files \cup st.dirs) : p # <<>> /\ Dirname(p) = dir}
      ord == CHOOSE o \in Perms(names) :
               \A i \in 1..Len(o) : \A j \in 1..Len(o) :
                 i < j => \/ IndexOf(st.order, o[i]) < IndexOf(st.order, o[j])
                          \/ /\ IndexOf(st.order, o[i]) = IndexOf(st.order, o[j])
                             /\ KeyLess(o[i], o[j])
  IN [i \in 1..Len(ord) |-> [path |-> ord[i], isDirectory |-> ord[i] \in st.dirs]]

\* the entries of listFilesRecursive's loop that are passed without an await:
\* files whose name does not end with ".md"
RECURSIVE SkipEntries(_)
SkipEntries(todo) ==
  IF todo = <<>> THEN <<>>
  ELSE IF ~todo[1].isDirectory /\ ~EndsWith(Basename(todo[1].path), <<".", "m", "d">>)
       THEN SkipEntries(Tail(todo))
  ELSE todo

\* files.sort((a, b) => b.lastModified.getTime() - a.lastModified.getTime()):
\* newest first, files of equal time in the order they were found
RECURSIVE InsertByTime(_, _)
InsertByTime(sorted, f) ==
  IF sorted = <<>> THEN <<f>>
  ELSE IF sorted[1].lastModified < f.lastModified THEN <<f>> \o sorted
  ELSE <<sorted[1]>> \o InsertByTime(Tail(sorted), f)

RECURSIVE SortByTime(_)
SortByTime(files) ==
  IF files = <<>> THEN <<>>
  ELSE InsertByTime(SortByTime(SubSeq(files, 1, Len(files) - 1)), files[Len(files)])

\* a list whose page runs one file into the next page
LocalListResultOverlapping(files, opts) ==
  LET sorted == SortByTime(files)
      offset == IF TruthyText(opts.continuationToken)
                THEN ParseInt(opts.continuationToken) ELSE 0
      limit == MaxResultsOf(opts)
  IN IF offset = NaN
     THEN StoreOut("list", {ListResult(<<>>, UndefinedText, FALSE)})
     ELSE LET paginatedFiles == Slice(sorted, offset, offset + limit + 1)
              hasMore == offset + limit < Len(sorted)
          IN StoreOut("list",
               {ListResult(paginatedFiles,
                           IF hasMore THEN NumberToString(offset + limit) ELSE UndefinedText,
                           hasMore)})

\* the end of list (local): sort, then the page that starts at the offset the
\* continuation token spells
LocalListResult(files, opts) ==
  LET sorted == SortByTime(files)
      offset == IF TruthyText(opts.continuationToken)
                THEN ParseInt(opts.continuationToken) ELSE 0
      limit == MaxResultsOf(opts)
  IN IF offset = NaN
     THEN StoreOut("list", {ListResult(<<>>, UndefinedText, FALSE)})
     ELSE LET paginatedFiles == Slice(sorted, offset, offset + limit)
              hasMore == offset + limit < Len(sorted)
          IN StoreOut("list",
               {ListResult(paginatedFiles,
                           IF hasMore THEN NumberToString(offset + limit) ELSE UndefinedText,
                           hasMore)})

\* the catch of list (local): ENOENT becomes an empty result, any other error
\* is thrown
LocalListCatch(code) ==
  IF IsNotFoundError("local", code)
  THEN StoreOut("list", {ListResult(<<>>, UndefinedText, FALSE)})
  ELSE StoreOut("error", {code})

\* put(key, content) of the local backend, from call to return: mkdir of the
\* directory, then writeFile
LocalPut(st, c, key, bytes) ==
  LET path == GetFullPath(key)
      made == Mkdir(st, Dirname(path))
      opened == OpenForWrite(made.st, c, path)
  IN IF made.out.kind = "error" THEN made
     ELSE IF opened.out.kind = "error" THEN opened
     ELSE [st |-> WriteAndClose(opened.st, c, path, bytes), out |-> StoreOut("void", {})]

\* readdir at the start of listFilesRecursive(dir)
ListEnter(st, dir) ==
  LET found == Lookup(st, dir)
  IN CASE found = "dir" -> [code |-> "", entries |-> Readdir(st, dir)]
       [] found = "file" -> [code |-> "ENOTDIR", entries |-> <<>>]
       [] OTHER -> [code |-> found, entries |-> <<>>]

\* one await of listFilesRecursive's loop and what follows it up to the next
\* one: the readdir of a directory entry, whose entries are walked before the
\* rest, or the stat of a ".md" file entry. In the keys used a path is a file
\* or a directory for as long as it is there
ListVisit(st, todo, acc) ==
  LET entry == todo[1]
  IN IF entry.isDirectory
     THEN LET sub == ListEnter(st, entry.path)
          IN [code |-> sub.code, todo |-> SkipEntries(sub.entries \o Tail(todo)),
              acc |-> acc]
     ELSE IF Lookup(st, entry.path) = "file"
          THEN [code |-> "", todo |-> SkipEntries(Tail(todo)),
                acc |-> Append(acc, FileMetadata(st, entry.path, entry.path))]
          ELSE [code |-> Lookup(st, entry.path), todo |-> <<>>, acc |-> acc]

\* the directory list(options) starts in
SearchDir(opts) == IF TruthyText(opts.prefix) THEN GetFullPath(opts.prefix) ELSE <<>>

\* the rest of a list call of the local backend run with no other call in
\* between
RECURSIVE ListWalk(_, _, _, _)
ListWalk(st, todo, acc, opts) ==
  IF todo = <<>> THEN LocalListResult(acc, opts)
  ELSE LET v == ListVisit(st, todo, acc)
       IN IF v.code # "" THEN LocalListCatch(v.code)
          ELSE ListWalk(st, v.todo, v.acc, opts)

\* list(options) of the local backend, from call to return
LocalList(st, opts) ==
  LET top == ListEnter(st, SearchDir(opts))
  IN IF top.code # "" THEN LocalListCatch(top.code)
     ELSE ListWalk(st, SkipEntries(top.entries), <<>>, opts)

\* list(options) with no other call in between
StoreList(st, opts) == IF st.kind = "s3" THEN S3List(st, opts) ELSE LocalList(st, opts)

\* delete(key) with no other call in between
\* S3: exists(key), then DeleteObjectCommand
StoreDelete(st, key) ==
  IF st.kind = "local" THEN LocalDelete(st, key)
  ELSE IF StoreExists(st, key).kind = "false" THEN [st |-> st, out |-> StoreOut("false", {})]
  ELSE [st |-> S3DeleteObject(st, GetFullKey(key)), out |-> StoreOut("true", {})]

\* put(key, content) with no other call in between
StorePut(st, c, key, bytes) ==
  IF st.kind = "local" THEN LocalPut(st, c, key, bytes)
  ELSE [st |-> S3Put(st, GetFullKey(key), bytes), out |-> StoreOut("void", {})]

\* the variables the content store leaves alone
indexVars == <<backend, table, nextId, appClock, dbClock, calls, ev, created, q, page,
               editor, drafts, history>>

\* a key is gone: the calls in flight no longer count it as there throughout
Forget(cs, gone) ==
  [c \in Callers |-> [cs[c] EXCEPT !.during = @ \ gone]]

\* caller c has taken a step: the other calls in flight no longer ran alone
Overlap(cs, c) ==
  [d \in Callers |-> IF d # c /\ cs[d] # StoreIdle THEN [cs[d] EXCEPT !.alone = FALSE]
                     ELSE cs[d]]

\* the keys of a page of files, in the page's order
PageKeys(files) == [i \in 1..Len(files) |-> files[i].key]

\* a caller that pages through list results: a list call without a token that
\* returns starts a listing, one with the token of the page before adds to
\* it, a put or delete ends it
Paged(session, event) ==
  IF session.phase = "none" THEN session
  ELSE IF event.op = "list" /\ event.out.kind = "list"
  THEN LET r == CHOOSE x \in event.out.val : TRUE
           first == event.opts.continuationToken = UndefinedText
       IN [phase |-> IF r.hasMore THEN "paging" ELSE "done",
           opts |-> event.opts,
           pages |-> IF first THEN 1 ELSE session.pages + 1,
           acc |-> IF first THEN PageKeys(r.files) ELSE session.acc \o PageKeys(r.files),
           last |-> event.out]
  ELSE IF event.op \in {"put", "delete"} /\ event.out.kind # "pending"
  THEN [NoListing EXCEPT !.phase = "idle"]
  ELSE session

\* the store after a step of caller c's call: its files, the call's new state
\* and what the step returned; a put that returned makes the key live with its
\* text, a delete that returned true ends that
StoreAfter(st, c, call, event) ==
  LET gone == DOMAIN store.files \ DOMAIN st.files
      live == IF event.op = "put" /\ event.out.kind = "void"
              THEN With(st.live, event.key, event.text)
              ELSE IF event.op = "delete" /\ event.out.kind = "true"
              THEN Without(st.live, event.key)
              ELSE st.live
  IN [st EXCEPT !.calls = Overlap(Forget([@ EXCEPT ![c] = call], gone), c),
                !.ev = event, !.live = live, !.session = Paged(st.session, event)]

StoreStep(st, c, call, event) ==
  /\ store' = StoreAfter(st, c, call, event)
  /\ UNCHANGED <<indexVars, auth>>

StorePending == StoreOut("pending", {})

\* get(key), exists(key), getMetadata(key): one request each
StoreGetCall(c, key) ==
  /\ store.calls[c] = StoreIdle
  /\ StoreStep(store, c, StoreIdle, StoreEvent("get", c, key, <<>>, StoreGet(store, key)))

StoreExistsCall(c, key) ==
  /\ store.calls[c] = StoreIdle
  /\ StoreStep(store, c, StoreIdle,
               StoreEvent("exists", c, key, <<>>, StoreExists(store, key)))

StoreGetMetadataCall(c, key) ==
  /\ store.calls[c] = StoreIdle
  /\ StoreStep(store, c, StoreIdle,
               StoreEvent("getMetadata", c, key, <<>>, StoreGetMetadata(store, key)))

\* put(key, content) of S3: one PutObjectCommand
S3PutCall(c, key, text) ==
  /\ store.kind = "s3"
  /\ store.calls[c] = StoreIdle
  /\ StoreStep(S3Put(store, GetFullKey(key), Utf8Encode(text)), c, StoreIdle,
               StoreEvent("put", c, key, text, StoreOut("void", {})))

\* put(key, content) of the local backend up to its first await: mkdir
LocalPutStart(c, key, text) ==
  /\ store.kind = "local"
  /\ store.calls[c] = StoreIdle
  /\ LET made == Mkdir(store, Dirname(GetFullPath(key)))
     IN IF made.out.kind = "error"
        THEN StoreStep(store, c, StoreIdle, StoreEvent("put", c, key, text, made.out))
        ELSE StoreStep(made.st, c,
                       [StoreIdle EXCEPT !.op = "put", !.pc = "open", !.key = key,
                                         !.text = text],
                       StoreEvent("put", c, key, text, StorePending))

\* writeFile opens the file
LocalPutOpen(c) ==
  /\ store.calls[c].pc = "open"
  /\ LET call == store.calls[c]
         opened == OpenForWrite(store, c, GetFullPath(call.key))
     IN IF opened.out.kind = "error"
        THEN StoreStep(store, c, StoreIdle,
                       StoreEvent("put", c, call.key, call.text, opened.out))
        ELSE StoreStep(opened.st, c, [call EXCEPT !.pc = "write"],
                       StoreEvent("put", c, call.key, call.text, StorePending))

\* writeFile writes and closes; put returns
LocalPutWrite(c) ==
  /\ store.calls[c].pc = "write"
  /\ LET call == store.calls[c]
     IN StoreStep(WriteAndClose(store, c, GetFullPath(call.key), Utf8Encode(call.text)), c, StoreIdle,
                  StoreEvent("put", c, call.key, call.text, StoreOut("void", {})))

\* delete(key) of the local backend: one unlink
LocalDeleteCall(c, key) ==
  /\ store.kind = "local"
  /\ store.calls[c] = StoreIdle
  /\ LET r == LocalDelete(store, key)
     IN StoreStep(r.st, c, StoreIdle, StoreEvent("delete", c, key, <<>>, r.out))

\* delete(key) of S3 up to its first await: exists(key)
S3DeleteStart(c, key) ==
  /\ store.kind = "s3"
  /\ store.calls[c] = StoreIdle
  /\ IF StoreExists(store, key).kind = "false"
     THEN StoreStep(store, c, StoreIdle,
                    StoreEvent("delete", c, key, <<>>, StoreOut("false", {})))
     ELSE StoreStep(store, c, [StoreIdle EXCEPT !.op = "delete", !.pc = "send", !.key = key],
                    StoreEvent("delete", c, key, <<>>, StorePending))

\* DeleteObjectCommand; delete returns true
S3DeleteSend(c) ==
  /\ store.calls[c].pc = "send"
  /\ LET call == store.calls[c]
     IN StoreStep(S3DeleteObject(store, GetFullKey(call.key)), c, StoreIdle,
                  StoreEvent("delete", c, call.key, <<>>, StoreOut("true", {})))

\* a list call returns: the event tells its options and the keys that were
\* there from its start to its end
ListEvent(c, opts, during, out) ==
  [StoreEvent("list", c, <<>>, <<>>, out) EXCEPT !.opts = opts, !.during = during]

\* list(options) of S3: one ListObjectsV2Command
S3ListCall(c, opts) ==
  /\ store.kind = "s3"
  /\ store.calls[c] = StoreIdle
  /\ StoreStep(store, c, StoreIdle,
               ListEvent(c, opts, DOMAIN store.files, S3List(store, opts)))

\* a list call of the local backend goes on to its next await, or returns
ListGoOn(c, opts, code, todo, acc, during) ==
  IF code # ""
  THEN StoreStep(store, c, StoreIdle, ListEvent(c, opts, during, LocalListCatch(code)))
  ELSE IF todo = <<>>
  THEN StoreStep(store, c, StoreIdle, ListEvent(c, opts, during, LocalListResult(acc, opts)))
  ELSE StoreStep(store, c,
                 [StoreIdle EXCEPT !.op = "list", !.pc = "walk", !.opts = opts,
                                   !.todo = todo, !.acc = acc, !.during = during],
                 ListEvent(c, opts, during, StorePending))

\* list(options) of the local backend up to its first await: readdir(searchDir)
LocalListStart(c, opts) ==
  /\ store.kind = "local"
  /\ store.calls[c] = StoreIdle
  /\ LET top == ListEnter(store, SearchDir(opts))
     IN ListGoOn(c, opts, top.code, SkipEntries(top.entries), <<>>, DOMAIN store.files)

\* the next await of listFilesRecursive
LocalListStep(c) ==
  /\ store.calls[c].pc = "walk"
  /\ LET call == store.calls[c]
         v == ListVisit(store, call.todo, call.acc)
     IN ListGoOn(c, call.opts, v.code, v.todo, v.acc, call.during)

\* the clock of the store's time stamps advances
StoreTickWithin(cap) ==
  /\ store.clock < cap
  /\ store' = [store EXCEPT !.clock = @ + 1,
                            !.ev = StoreEvent("tick", 0, <<>>, <<>>, StorePending)]
  /\ UNCHANGED <<indexVars, auth>>

\* --------------------------------------------------------------------- auth
\* AuthUser | null (a user of no did), error: string | null
NullUser == [did |-> 0]
NullError == "null"
NotInitialized == "OAuth client not initialized. Call initAuthClient first."
Failed == "failed"
TypeErrorNull == "Cannot read properties of null (reading 'did')"

\* the user getCurrentUser builds from a session's did and its profile
UserOf(session) == [did |-> session]

\* AuthState, and initialState
AuthState(loading, authenticated, user, error) ==
  [loading |-> loading, authenticated |-> authenticated, user |-> user, error |-> error]

initialState == AuthState(TRUE, FALSE, NullUser, NullError)

\* AuthGuard's redirectTo prop, at its default
redirectTo == "/login"

\* AuthGuard's template: the loading content, the children, or nothing
GuardRenders(state) ==
  IF state.loading THEN "loading"
  ELSE IF state.authenticated THEN "children"
  ELSE "nothing"

\* a guard whose effect redirects whoever is not authenticated, loading or not
GuardRedirectsLoading(state) == ~state.authenticated

\* the condition of AuthGuard's $effect
GuardRedirects(state) == ~state.loading /\ ~state.authenticated

\* the effect runs again when a store value its last run read has changed:
\* $authLoading, and with loading false $isAuthenticatedStore
EffectRuns(was, state) ==
  \/ was.loading # state.loading
  \/ ~was.loading /\ was.authenticated # state.authenticated

\* no AuthGuard is mounted; effect: what the effect's last run did, nav: the
\* last goto
NoGuard == [mounted |-> FALSE, rendered |-> "none", effect |-> "none", nav |-> "none"]

\* a mounted AuthGuard after the store went from state was to state
GuardAfter(guard, was, state) ==
  IF ~guard.mounted THEN guard
  ELSE [guard EXCEPT
          !.rendered = GuardRenders(state),
          !.effect = IF EffectRuns(was, state) /\ GuardRedirects(state) THEN "goto"
                     ELSE "none",
          !.nav = IF EffectRuns(was, state) /\ GuardRedirects(state) THEN redirectTo
                  ELSE @]

\* no auth call in flight for a caller; found: the session initSession gave
\* to this call
AuthIdle == [op |-> "idle", pc |-> "idle", found |-> 0]

AuthCall(op, pc, found) == [op |-> op, pc |-> pc, found |-> found]

\* the auth step taken last: call, caller, and what it handed back: "pending",
\* "void", "client", "result", or "error" with the message
AuthEvent(op, c, kind, val) == [op |-> op, caller |-> c, kind |-> kind, val |-> val]

\* the modules as loaded: oauthClient = null, currentSession = null (0 stands
\* for null), the store at initialState with session = null; browser is the
\* session kept in the browser's storage, href whether a redirect has started,
\* loggedOut whether a logout has completed and no init has found a session
\* since
AuthModule(browser) ==
  [oauthClient |-> 0, loaded |-> 0, currentSession |-> 0, href |-> FALSE,
   state |-> initialState, session |-> 0, browser |-> browser, loggedOut |-> FALSE,
   guard |-> NoGuard,
   calls |-> [c \in Callers |-> AuthIdle],
   ev |-> AuthEvent("none", 0, "pending", 0)]

AuthInit == auth = AuthModule(0)

\* isAuthenticated()
IsAuthenticated(a) == a.currentSession # 0

\* the catch blocks of the store: init sets the whole state, login, logout
\* and refreshUser keep the rest of it
\* a catch that leaves loading on
InitCatchLoading(message) == AuthState(TRUE, FALSE, NullUser, message)

InitCatch(message) == AuthState(FALSE, FALSE, NullUser, message)
UpdateCatch(state, message) == [state EXCEPT !.loading = FALSE, !.error = message]
RefreshCatch(state, message) == [state EXCEPT !.error = message]

\* auth.logout has returned without an error; auth.init has found a session
LoggedOut(was, call, event) ==
  IF event.op = "auth.logout" /\ event.kind = "void" /\ event.val = NullError THEN TRUE
  ELSE IF event.op = "init" /\ call.found # 0 THEN FALSE
  ELSE was

\* a step of caller c's auth call: the modules after it, the call's new
\* position, what it handed back
AuthStep(a, c, call, event) ==
  /\ auth' = [a EXCEPT !.calls[c] = call, !.ev = event,
                        !.loggedOut = LoggedOut(@, call, event),
                        !.guard = GuardAfter(@, auth.state, a.state)]
  /\ UNCHANGED <<indexVars, store>>

\* a page mounts AuthGuard: the template renders and the effect runs
GuardMount ==
  /\ ~auth.guard.mounted
  /\ auth' = [auth EXCEPT !.guard = [mounted |-> TRUE,
                                      rendered |-> GuardRenders(auth.state),
                                      effect |-> IF GuardRedirects(auth.state) THEN "goto"
                                                 ELSE "none",
                                      nav |-> IF GuardRedirects(auth.state) THEN redirectTo
                                              ELSE "none"]]
  /\ UNCHANGED <<indexVars, store>>

\* initAuthClient(config) up to its await: the client there is, or load
InitAuthClientCall(c) ==
  /\ auth.calls[c] = AuthIdle
  /\ IF auth.oauthClient # 0
     THEN AuthStep(auth, c, AuthIdle,
                   AuthEvent("initAuthClient", c, "client", auth.oauthClient))
     ELSE AuthStep(auth, c, AuthCall("initAuthClient", "load", 0),
                   AuthEvent("initAuthClient", c, "pending", 0))

\* initSession() up to its await
InitSessionCall(c) ==
  /\ auth.calls[c] = AuthIdle
  /\ IF auth.oauthClient = 0
     THEN AuthStep(auth, c, AuthIdle, AuthEvent("initSession", c, "error", NotInitialized))
     ELSE AuthStep(auth, c, AuthCall("initSession", "session", 0),
                   AuthEvent("initSession", c, "pending", 0))

\* login(handle) up to its await
LoginCall(c) ==
  /\ auth.calls[c] = AuthIdle
  /\ IF auth.oauthClient = 0
     THEN AuthStep(auth, c, AuthIdle, AuthEvent("login", c, "error", NotInitialized))
     ELSE AuthStep(auth, c, AuthCall("login", "authorize", 0),
                   AuthEvent("login", c, "pending", 0))

\* auth.init(config) up to its first await: loading, then initAuthClient and,
\* with a client there, initSession up to oauthClient.init()
AuthInitCall(c) ==
  /\ auth.calls[c] = AuthIdle
  /\ LET a == [auth EXCEPT !.state.loading = TRUE, !.state.error = NullError]
     IN AuthStep(a, c,
                 AuthCall("init", IF auth.oauthClient # 0 THEN "session" ELSE "load", 0),
                 AuthEvent("init", c, "pending", 0))

\* BrowserOAuthClient.load resolves or rejects, at most cap times: the client
\* is assigned; initAuthClient returns it, auth.init goes on to initSession
LoadDoneWithin(c, ok, cap) ==
  /\ auth.calls[c].pc = "load"
  /\ auth.loaded < cap
  /\ LET op == auth.calls[c].op
         a == [auth EXCEPT !.oauthClient = auth.loaded + 1, !.loaded = @ + 1]
     IN CASE ok /\ op = "initAuthClient" ->
               AuthStep(a, c, AuthIdle, AuthEvent(op, c, "client", a.oauthClient))
          [] ok /\ op = "init" ->
               AuthStep(a, c, AuthCall("init", "session", 0), AuthEvent(op, c, "pending", 0))
          [] ~ok /\ op = "initAuthClient" ->
               AuthStep(auth, c, AuthIdle, AuthEvent(op, c, "error", Failed))
          [] OTHER ->
               AuthStep([auth EXCEPT !.state = InitCatch(Failed)], c, AuthIdle,
                        AuthEvent(op, c, "void", Failed))

\* oauthClient.init() resolves with the browser's session or with none, or
\* rejects; initSession keeps the session as currentSession; auth.init keeps
\* it too and goes on to getCurrentUser up to getProfile
SessionDone(c, ok) ==
  /\ auth.calls[c].pc = "session"
  /\ LET op == auth.calls[c].op
         found == auth.browser
         a == [auth EXCEPT !.currentSession = found]
     IN CASE ~ok /\ op = "initSession" ->
               AuthStep(auth, c, AuthIdle, AuthEvent(op, c, "error", Failed))
          [] ~ok /\ op = "init" ->
               AuthStep([auth EXCEPT !.state = InitCatch(Failed)], c, AuthIdle,
                        AuthEvent(op, c, "void", Failed))
          [] ok /\ found = 0 /\ op = "initSession" ->
               AuthStep(auth, c, AuthIdle, AuthEvent(op, c, "result", 0))
          [] ok /\ found = 0 /\ op = "init" ->
               AuthStep([auth EXCEPT !.state = AuthState(FALSE, FALSE, NullUser, NullError)],
                        c, AuthIdle, AuthEvent(op, c, "void", NullError))
          [] ok /\ found # 0 /\ op = "initSession" ->
               AuthStep(a, c, AuthIdle, AuthEvent(op, c, "result", found))
          [] OTHER ->
               AuthStep([a EXCEPT !.session = found], c, AuthCall("init", "profile", found),
                        AuthEvent(op, c, "pending", 0))

\* a getCurrentUser that read the did before it awaited getProfile
ProfileDoneDidBefore(c, ok) ==
  /\ auth.calls[c].pc = "profile"
  /\ LET op == auth.calls[c].op
         message == IF ~ok THEN Failed ELSE NullError
         user == UserOf(1)
     IN CASE message = NullError /\ op = "init" ->
               AuthStep([auth EXCEPT !.state = AuthState(FALSE, TRUE, user, NullError)],
                        c, AuthIdle, AuthEvent(op, c, "void", NullError))
          [] message = NullError /\ op = "refreshUser" ->
               AuthStep([auth EXCEPT !.state.user = user], c, AuthIdle,
                        AuthEvent(op, c, "void", NullError))
          [] message # NullError /\ op = "init" ->
               AuthStep([auth EXCEPT !.state = InitCatch(message)], c, AuthIdle,
                        AuthEvent(op, c, "void", message))
          [] OTHER ->
               AuthStep([auth EXCEPT !.state = RefreshCatch(@, message)], c, AuthIdle,
                        AuthEvent(op, c, "void", message))

\* agent.getProfile resolves or rejects; getCurrentUser then reads
\* currentSession.did, a TypeError when currentSession is null by now.
\* auth.init sets the state, refreshUser updates user or error
ProfileDone(c, ok) ==
  /\ auth.calls[c].pc = "profile"
  /\ LET op == auth.calls[c].op
         message == IF ~ok THEN Failed
                    ELSE IF auth.currentSession = 0 THEN TypeErrorNull ELSE NullError
         user == UserOf(auth.currentSession)
     IN CASE message = NullError /\ op = "init" ->
               AuthStep([auth EXCEPT !.state = AuthState(FALSE, TRUE, user, NullError)],
                        c, AuthIdle, AuthEvent(op, c, "void", NullError))
          [] message = NullError /\ op = "refreshUser" ->
               AuthStep([auth EXCEPT !.state.user = user], c, AuthIdle,
                        AuthEvent(op, c, "void", NullError))
          [] message # NullError /\ op = "init" ->
               AuthStep([auth EXCEPT !.state = InitCatch(message)], c, AuthIdle,
                        AuthEvent(op, c, "void", message))
          [] OTHER ->
               AuthStep([auth EXCEPT !.state = RefreshCatch(@, message)], c, AuthIdle,
                        AuthEvent(op, c, "void", message))

\* auth.login(handle) up to its await: loading, then login
AuthLoginCall(c) ==
  /\ auth.calls[c] = AuthIdle
  /\ LET a == [auth EXCEPT !.state.loading = TRUE, !.state.error = NullError]
     IN IF auth.oauthClient = 0
        THEN AuthStep([a EXCEPT !.state = UpdateCatch(@, NotInitialized)], c, AuthIdle,
                      AuthEvent("auth.login", c, "void", NotInitialized))
        ELSE AuthStep(a, c, AuthCall("auth.login", "authorize", 0),
                      AuthEvent("auth.login", c, "pending", 0))

\* oauthClient.authorize resolves or rejects: window.location.href is set
AuthorizeDone(c, ok) ==
  /\ auth.calls[c].pc = "authorize"
  /\ LET op == auth.calls[c].op
     IN CASE ok -> AuthStep([auth EXCEPT !.href = TRUE], c, AuthIdle,
                            AuthEvent(op, c, "void", NullError))
          [] ~ok /\ op = "login" ->
               AuthStep(auth, c, AuthIdle, AuthEvent(op, c, "error", Failed))
          [] OTHER ->
               AuthStep([auth EXCEPT !.state = UpdateCatch(@, Failed)], c, AuthIdle,
                        AuthEvent(op, c, "void", Failed))

\* auth.logout() up to its await: loading, then logout, which signs out the
\* current session when there is one
AuthLogoutCall(c) ==
  /\ auth.calls[c] = AuthIdle
  /\ IF auth.currentSession # 0
     THEN AuthStep([auth EXCEPT !.state.loading = TRUE], c,
                   AuthCall("auth.logout", "signOut", 0),
                   AuthEvent("auth.logout", c, "pending", 0))
     ELSE AuthStep([auth EXCEPT !.session = 0,
                                !.state = AuthState(FALSE, FALSE, NullUser, NullError)],
                   c, AuthIdle, AuthEvent("auth.logout", c, "void", NullError))

\* currentSession.signOut() resolves or rejects
SignOutDone(c, ok) ==
  /\ auth.calls[c].pc = "signOut"
  /\ IF ok
     THEN AuthStep([auth EXCEPT !.currentSession = 0, !.browser = 0, !.session = 0,
                                !.state = AuthState(FALSE, FALSE, NullUser, NullError)],
                   c, AuthIdle, AuthEvent("auth.logout", c, "void", NullError))
     ELSE AuthStep([auth EXCEPT !.state = UpdateCatch(@, Failed)], c, AuthIdle,
                   AuthEvent("auth.logout", c, "void", Failed))

\* auth.refreshUser() up to its await: nothing without a session; with one,
\* getCurrentUser, which returns null when there is no current session
RefreshUserCall(c) ==
  /\ auth.calls[c] = AuthIdle
  /\ CASE auth.session = 0 ->
            AuthStep(auth, c, AuthIdle, AuthEvent("refreshUser", c, "void", NullError))
       [] auth.session # 0 /\ auth.currentSession = 0 ->
            AuthStep([auth EXCEPT !.state.user = NullUser], c, AuthIdle,
                     AuthEvent("refreshUser", c, "void", NullError))
       [] OTHER ->
            AuthStep(auth, c, AuthCall("refreshUser", "profile", 0),
                     AuthEvent("refreshUser", c, "pending", 0))

\* ------------------------------------------------------------------ actions
\* nothing has happened; the update calls are not followed
NoHistory ==
  [keys |-> {}, deleted |-> {}, watch |-> FALSE, updates |-> <<>>, before |-> {}]

\* an update call starts: where update calls are followed, its partial is
\* noted, and with the first one the record as it was
Noted(h, b, t, id, p) ==
  IF ~h.watch THEN h
  ELSE [h EXCEPT !.updates = Append(@, p),
                 !.before = IF h.updates = <<>> THEN GetRecs(b, t, id) ELSE @]

IndexInit ==
  /\ backend \in Backends
  /\ table = <<>>
  /\ nextId = 1
  /\ appClock = 0
  /\ dbClock = 0
  /\ calls = [c \in Callers |-> Idle]
  /\ ev = Event("init", 0, {}, {}, Pending)
  /\ created = <<>>
  /\ q = NotQuerying
  /\ history = NoHistory

Init == IndexInit /\ EditorInit /\ StoreInit /\ AuthInit

\* create(input): no await between the call and the write; at most cap records
\* are ever created
CreateWithin(x, cap) ==
  /\ nextId <= cap
  /\ LET r == CASE backend = "sqlite" -> SqliteCreateResult(table, nextId, x, appClock)
                [] backend = "postgres" -> PostgresCreateResult(table, nextId, x, dbClock)
                [] OTHER -> DynamoCreateResult(table, nextId, x, appClock)
     IN /\ table' = r.table
        /\ nextId' = IF r.out.kind = "record" THEN nextId + 1 ELSE nextId
        /\ ev' = Event("create", IF r.out.kind = "record" THEN nextId ELSE 0, {x}, {}, r.out)
        /\ created' = Track(nextId, r.out, x)
        /\ history' = IF r.out.kind = "record"
                      THEN [history EXCEPT !.keys = @ \cup {<<x.storageKey, nextId>>}]
                      ELSE history
  /\ UNCHANGED <<page, editor, drafts, q, backend, store, auth, appClock, dbClock, calls>>

Create(x) == CreateWithin(x, MaxIds)

\* an id string that is not of the form the backends generate (not a UUID)
MalformedId == 0

IsUuid(id) == id # MalformedId

\* what get(id) hands back: SQLite compares TEXT and DynamoDB builds the key
\* from the string, whatever it is; Postgres compares with a column of type
\* UUID, and a parameter that is not a UUID fails the statement (invalid input
\* syntax for type uuid), which get does not catch
GetOut(b, t, id) ==
  IF b = "postgres" /\ ~IsUuid(id) THEN Out("error", {})
  ELSE RecOrNull(GetRecs(b, t, id))

\* get(id): one SELECT / GetCommand
Get(id) ==
  /\ ev' = Event("get", id, {}, {}, GetOut(backend, table, id))
  /\ UNCHANGED <<page, editor, drafts, q, history, backend, store, auth, table, nextId, appClock, dbClock, calls, created>>

\* update(id, input), Postgres: a single statement
PostgresUpdate(id, p) ==
  /\ backend = "postgres"
  /\ LET r == PostgresUpdateResult(table, id, p, appClock)
     IN /\ table' = r.table
        /\ ev' = Event("update", id, {}, {p}, r.out)
  /\ created' = Untrack(id)
  /\ history' = Noted(history, backend, table, id, p)
  /\ UNCHANGED <<page, editor, drafts, q, backend, store, auth, nextId, appClock, dbClock, calls>>

\* update(id, input), SQLite and DynamoDB, up to the first await: get(id)
UpdateStart(c, id, p) ==
  /\ backend \in {"sqlite", "dynamodb"}
  /\ calls[c] = Idle
  /\ LET existing == GetRecs(backend, table, id)
     IN IF existing = {}
          THEN /\ ev' = Event("update", id, {}, {p}, Out("null", {}))
               /\ calls' = calls
          ELSE /\ ev' = Event("step", id, {}, {p}, Pending)
               /\ calls' = [calls EXCEPT ![c] =
                              InFlight("update", "write", id, {p},
                                       IF NoFields(p) THEN existing ELSE {})]
  /\ created' = Untrack(id)
  /\ history' = Noted(history, backend, table, id, p)
  /\ UNCHANGED <<page, editor, drafts, q, backend, store, auth, table, nextId, appClock, dbClock>>

\* update, SQLite, after the await: UPDATE ... WHERE id = ?, then get(id)
SqliteUpdateWrite(c) ==
  /\ backend = "sqlite"
  /\ calls[c].op = "update" /\ calls[c].pc = "write"
  /\ LET id == calls[c].id
         p == CHOOSE u \in calls[c].p : TRUE
         r == IF NoFields(p) THEN [table |-> table, out |-> Out("record", calls[c].existing)]
              ELSE SqliteUpdateResult(table, id, p, appClock)
     IN /\ table' = r.table
        /\ ev' = Event("update", id, {}, {p}, r.out)
  /\ calls' = [calls EXCEPT ![c] = Idle]
  /\ UNCHANGED <<page, editor, drafts, q, history, backend, store, auth, nextId, appClock, dbClock, created>>

\* update, DynamoDB, after the first await: the UpdateCommand
DynamoUpdateWrite(c) ==
  /\ backend = "dynamodb"
  /\ calls[c].op = "update" /\ calls[c].pc = "write"
  /\ LET id == calls[c].id
         p == CHOOSE u \in calls[c].p : TRUE
     IN IF NoFields(p)
          THEN /\ table' = table
               /\ calls' = [calls EXCEPT ![c] = Idle]
               /\ ev' = Event("update", id, {}, {p}, Out("record", calls[c].existing))
          ELSE /\ table' = DynamoUpdateTable(table, id, p, appClock)
               /\ calls' = [calls EXCEPT ![c].pc = "read"]
               /\ ev' = Event("step", id, {}, {p}, Pending)
  /\ UNCHANGED <<page, editor, drafts, q, history, backend, store, auth, nextId, appClock, dbClock, created>>

\* update, DynamoDB, last step: return this.get(id)
DynamoUpdateRead(c) ==
  /\ backend = "dynamodb"
  /\ calls[c].op = "update" /\ calls[c].pc = "read"
  /\ ev' = Event("update", calls[c].id, {}, calls[c].p,
                 RecOrNull(GetRecs(backend, table, calls[c].id)))
  /\ calls' = [calls EXCEPT ![c] = Idle]
  /\ UNCHANGED <<page, editor, drafts, q, history, backend, store, auth, table, nextId, appClock, dbClock, created>>

\* delete(id), SQLite and Postgres: one DELETE, true when it removed a row
SqlDelete(id) ==
  /\ backend \in {"sqlite", "postgres"}
  /\ table' = DeleteRow(table, id)
  /\ ev' = Event("delete", id, {}, {},
                 Out(IF id \in DOMAIN table THEN "true" ELSE "false", {}))
  /\ created' = Untrack(id)
  /\ history' = IF id \in DOMAIN table THEN [history EXCEPT !.deleted = @ \cup {id}]
                ELSE history
  /\ UNCHANGED <<page, editor, drafts, q, backend, store, auth, nextId, appClock, dbClock, calls>>

\* delete(id), DynamoDB, up to the await: get(id), false when there is no item
DynamoDeleteStart(c, id) ==
  /\ backend = "dynamodb"
  /\ calls[c] = Idle
  /\ LET existing == GetRecs(backend, table, id)
     IN IF existing = {}
          THEN /\ ev' = Event("delete", id, {}, {}, Out("false", {}))
               /\ calls' = calls
          ELSE /\ ev' = Event("step", id, {}, {}, Pending)
               /\ calls' = [calls EXCEPT ![c] = InFlight("delete", "write", id, {}, {})]
  /\ created' = Untrack(id)
  /\ UNCHANGED <<page, editor, drafts, q, history, backend, store, auth, table, nextId, appClock, dbClock>>

\* delete, DynamoDB, after the await: DeleteCommand, then true
DynamoDeleteWrite(c) ==
  /\ backend = "dynamodb"
  /\ calls[c].op = "delete" /\ calls[c].pc = "write"
  /\ table' = DeleteRow(table, calls[c].id)
  /\ ev' = Event("delete", calls[c].id, {}, {}, Out("true", {}))
  /\ calls' = [calls EXCEPT ![c] = Idle]
  /\ history' = [history EXCEPT !.deleted = @ \cup {calls[c].id}]
  /\ UNCHANGED <<page, editor, drafts, q, backend, store, auth, nextId, appClock, dbClock, created>>

\* a millisecond passes on the application's clock
TickWithin(cap) ==
  /\ appClock < cap
  /\ appClock' = appClock + 1
  /\ ev' = Event("tick", 0, {}, {}, Pending)
  /\ UNCHANGED <<page, editor, drafts, q, history, backend, store, auth, table, nextId, dbClock, calls, created>>

\* time passes on the Postgres server's clock
DbTickWithin(cap) ==
  /\ backend = "postgres"
  /\ dbClock < cap
  /\ dbClock' = dbClock + 1
  /\ ev' = Event("tick", 0, {}, {}, Pending)
  /\ UNCHANGED <<page, editor, drafts, q, history, backend, store, auth, table, nextId, appClock, calls, created>>

Tick == TickWithin(MaxTime)
DbTick == DbTickWithin(MaxTime)

\* a caller calls the index; calls of several callers interleave at their awaits
Start ==
  \/ \E x \in CreateInputs : Create(x)
  \/ \E id \in Ids : Get(id)
  \/ \E id \in Ids, p \in UpdateInputs : PostgresUpdate(id, p)
  \/ \E c \in Callers, id \in Ids, p \in UpdateInputs : UpdateStart(c, id, p)
  \/ \E id \in Ids : SqlDelete(id)
  \/ \E c \in Callers, id \in Ids : DynamoDeleteStart(c, id)

\* a call in flight resumes after its await
Resume ==
  \E c \in Callers :
    \/ SqliteUpdateWrite(c)
    \/ DynamoUpdateWrite(c)
    \/ DynamoUpdateRead(c)
    \/ DynamoDeleteWrite(c)

Next == Start \/ Resume \/ Tick \/ DbTick

Spec == Init /\ [][Next]_vars

\* ------------------------------------------- one call at a time, each whole
\* update(id, input) run from call to return with no other call in between
SeqUpdate(id, p) ==
  /\ backend \in {"sqlite", "dynamodb"}
  /\ LET existing == GetRecs(backend, table, id)
         r == IF existing = {} THEN [table |-> table, out |-> Out("null", {})]
              ELSE IF NoFields(p) THEN [table |-> table, out |-> Out("record", existing)]
              ELSE IF backend = "sqlite" THEN SqliteUpdateResult(table, id, p, appClock)
              ELSE LET t2 == DynamoUpdateTable(table, id, p, appClock)
                   IN [table |-> t2, out |-> RecOrNull(GetRecs(backend, t2, id))]
     IN /\ table' = r.table
        /\ ev' = Event("update", id, {}, {p}, r.out)
  /\ created' = Untrack(id)
  /\ UNCHANGED <<page, editor, drafts, q, history, backend, store, auth, nextId, appClock, dbClock, calls>>

\* delete(id) of DynamoDB run from call to return: get(id), then DeleteCommand
SeqDynamoDelete(id) ==
  /\ backend = "dynamodb"
  /\ LET existing == GetRecs(backend, table, id)
     IN /\ table' = IF existing = {} THEN table ELSE DeleteRow(table, id)
        /\ ev' = Event("delete", id, {}, {},
                       Out(IF existing = {} THEN "false" ELSE "true", {}))
        /\ history' = IF existing = {} THEN history
                      ELSE [history EXCEPT !.deleted = @ \cup {id}]
  /\ created' = Untrack(id)
  /\ UNCHANGED <<page, editor, drafts, q, backend, store, auth, nextId, appClock, dbClock, calls>>

NextSeq ==
  \/ \E x \in CreateInputs : Create(x)
  \/ \E id \in Ids : Get(id)
  \/ \E id \in Ids, p \in UpdateInputs : PostgresUpdate(id, p)
  \/ \E id \in Ids, p \in UpdateInputs : SeqUpdate(id, p)
  \/ \E id \in Ids : SqlDelete(id)
  \/ \E id \in Ids : SeqDynamoDelete(id)
  \/ Tick
  \/ DbTick

SpecSeq == Init /\ [][NextSeq]_vars

\* ------------------------------------- updates naming each updatable field
ExcerptOnly == [NoField EXCEPT !.excerpt = Str_a]
EmptyTags == [NoField EXCEPT !.tags = <<>>]
CountOnly == [NoField EXCEPT !.wordCount = 1000]
AllFields == [title |-> Str_b, excerpt |-> Str_a, tags |-> <<Tag_sci>>,
              wordCount |-> 1000]

\* UpdateStoryInput values: no field, each field alone, all fields
FieldUpdateInputs ==
  {NoField, TitleOnly, ExcerptOnly, EmptyTags, CountOnly, AllFields}

\* the records updated: one author's, with and without excerpt and tags
UpdateCreateInputs == {x \in CreateInputs : x.authorDid = "did:1"}

\* create(input) on an empty index: the updates are followed on one stored
\* record at a time
UpdateCreate(x) == DOMAIN table = {} /\ Create(x)

NextUpdate ==
  \/ \E x \in UpdateCreateInputs : UpdateCreate(x)
  \/ \E id \in Ids, p \in FieldUpdateInputs : PostgresUpdate(id, p)
  \/ \E id \in Ids, p \in FieldUpdateInputs : SeqUpdate(id, p)
  \/ \E id \in Ids : SqlDelete(id)
  \/ \E id \in Ids : SeqDynamoDelete(id)
  \/ Tick
  \/ DbTick

SpecUpdate == Init /\ [][NextUpdate]_vars

\* ---------------------------------------------- paging through query results
\* records created before the paging starts: those above, and one with a
\* single tag
QueryCreateInputs ==
  CreateInputs \cup
  { [title |-> Str_b, authorDid |-> "did:2", authorName |-> "Bob", storageKey |-> "k3",
     wordCount |-> 990, excerpt |-> UndefinedText, tags |-> <<Tag_fic>>] }

\* the options the caller pages with (offset is the caller's position)
QueryInputs ==
  { Options(Undefined, UndefinedTags, sortBy, sortOrder, limit) :
      sortBy \in {Undefined, "title"}, sortOrder \in {Undefined, "asc"}, limit \in {1, 2} }
  \cup
  { Options("did:1", UndefinedTags, sortBy, Undefined, limit) :
      sortBy \in {Undefined, "title"}, limit \in {1, 2} }
  \cup
  { Options(Undefined, tags, Undefined, Undefined, 2) :
      tags \in {<<Tag_fic>>, <<Tag_fic, Tag_fam>>, <<Tag_sci>>, <<Tag_FIC>>, <<Tag_pct>>} }

QueryCreate(x) == q.phase = "none" /\ CreateWithin(x, MaxRows)
QueryTick == q.phase = "none" /\ TickWithin(MaxQueryTime)
QueryDbTick == q.phase = "none" /\ DbTickWithin(MaxQueryTime)

\* the caller picks its options and starts at offset 0
QueryStart(o) ==
  /\ q.phase = "none"
  /\ q' = [q EXCEPT !.phase = "paging", !.o = o]
  /\ ev' = Event("step", 0, {}, {}, Pending)
  /\ UNCHANGED <<page, editor, drafts, history, backend, store, auth, table, nextId, appClock, dbClock, calls, created>>

\* query({...o, offset}): the caller appends the page to what it has read and
\* moves its offset on by limit, until a page reports hasMore = false
QueryPage ==
  /\ q.phase = "paging"
  /\ q.pages < MaxPages
  /\ \E r \in Query(backend, table, [q.o EXCEPT !.offset = q.offset]) :
       q' = [q EXCEPT !.phase = IF r.hasMore THEN "paging" ELSE "paged",
                      !.offset = q.offset + LimitOf(q.o),
                      !.pages = q.pages + 1,
                      !.acc = q.acc \o StoryIds(r.stories),
                      !.last = r]
  /\ ev' = Event("query", 0, {}, {}, Pending)
  /\ UNCHANGED <<page, editor, drafts, history, backend, store, auth, table, nextId, appClock, dbClock, calls, created>>

\* one query with the same filter and sort, no offset and a limit above the
\* number of records
QueryAll ==
  /\ q.phase = "paged"
  /\ \E r \in Query(backend, table, [q.o EXCEPT !.limit = Cardinality(DOMAIN table) + 1]) :
       q' = [q EXCEPT !.phase = "done", !.full = r]
  /\ ev' = Event("query", 0, {}, {}, Pending)
  /\ UNCHANGED <<page, editor, drafts, history, backend, store, auth, table, nextId, appClock, dbClock, calls, created>>

NextQuery ==
  \/ \E x \in QueryCreateInputs : QueryCreate(x)
  \/ QueryTick
  \/ QueryDbTick
  \/ \E o \in QueryInputs : QueryStart(o)
  \/ QueryPage
  \/ QueryAll

SpecQuery == Init /\ [][NextQuery]_vars

\* ------------------------------------------------- reads of a fixed dataset
\* records created before the reads: titles and excerpts with letters in both
\* cases
Str_Ab == <<"A", "b">>
Str_aB == <<"a", "B">>
Str_c == <<"c">>

ReadCreateInputs ==
  { [title |-> Str_Ab, authorDid |-> "did:1", authorName |-> "Ann", storageKey |-> "k1",
     wordCount |-> 950, excerpt |-> UndefinedText, tags |-> <<Tag_fic>>],
    [title |-> Str_c, authorDid |-> "did:2", authorName |-> "Bob", storageKey |-> "k2",
     wordCount |-> 975, excerpt |-> Str_aB, tags |-> UndefinedTags],
    [title |-> Str_b, authorDid |-> "did:1", authorName |-> "Ann", storageKey |-> "k3",
     wordCount |-> 1000, excerpt |-> <<>>, tags |-> <<>>] }

\* the search options callers pass
SearchInputs ==
  { SearchOptions(query, authorDid, UndefinedNum, UndefinedNum) :
      query \in {<<"a", "b">>, <<"A", "B">>, Str_b, <<"_">>, <<"%">>, <<"x">>, <<>>},
      authorDid \in {Undefined, "did:1"} }
  \cup
  { SearchOptions(Str_b, Undefined, limit, offset) : limit \in {1, 2}, offset \in {0, 1, 2} }

\* the authors and options callers pass to listByAuthor
AuthorInputs == {"", "did:1", "did:2"}

ListInputs ==
  { Options(Undefined, UndefinedTags, sortBy, sortOrder, limit) :
      sortBy \in {Undefined, "title"}, sortOrder \in {Undefined, "asc"},
      limit \in {UndefinedNum, 1} }

\* the filters callers pass to count
CountInputs ==
  { Options(authorDid, tags, Undefined, Undefined, UndefinedNum) :
      authorDid \in {Undefined, "did:1"}, tags \in {UndefinedTags, <<Tag_fic>>} }

\* the options of a query made twice
TwiceInputs ==
  { Options(authorDid, UndefinedTags, sortBy, Undefined, UndefinedNum) :
      authorDid \in {Undefined, "did:1"}, sortBy \in {Undefined, "title"} }

ReadCreate(x) == q.phase = "none" /\ CreateWithin(x, MaxRows)
ReadTick == q.phase = "none" /\ TickWithin(MaxQueryTime)
ReadDbTick == q.phase = "none" /\ DbTickWithin(MaxQueryTime)

\* search(so)
SearchCall(so) ==
  /\ q.phase = "none"
  /\ \E r \in Search(backend, table, so) :
       q' = [q EXCEPT !.phase = "search", !.o = so, !.last = r]
  /\ ev' = Event("search", 0, {}, {}, Pending)
  /\ UNCHANGED <<page, editor, drafts, history, backend, store, auth, table, nextId, appClock, dbClock,
                 calls, created>>

\* listByAuthor(authorDid, o), then query({...o, authorDid})
ListByAuthorCall(authorDid, o) ==
  /\ q.phase = "none"
  /\ \E r \in ListByAuthor(backend, table, authorDid, o) :
       \E r2 \in Query(backend, table, [o EXCEPT !.authorDid = authorDid]) :
         q' = [q EXCEPT !.phase = "listByAuthor", !.o = [o EXCEPT !.authorDid = authorDid],
                        !.last = r, !.full = r2]
  /\ ev' = Event("listByAuthor", 0, {}, {}, Pending)
  /\ UNCHANGED <<page, editor, drafts, history, backend, store, auth, table, nextId, appClock, dbClock,
                 calls, created>>

\* count(o), then query({...o, limit: 1})
CountCall(o) ==
  /\ q.phase = "none"
  /\ \E n \in Count(backend, table, o) :
       \E r2 \in Query(backend, table, [o EXCEPT !.limit = 1]) :
         q' = [q EXCEPT !.phase = "count", !.o = o, !.last = n, !.full = r2]
  /\ ev' = Event("count", 0, {}, {}, Pending)
  /\ UNCHANGED <<page, editor, drafts, history, backend, store, auth, table, nextId, appClock, dbClock,
                 calls, created>>

\* query(o), and query(o) again
QueryTwice(o) ==
  /\ q.phase = "none"
  /\ \E r \in Query(backend, table, o) :
       \E r2 \in Query(backend, table, o) :
         q' = [q EXCEPT !.phase = "queryTwice", !.o = o, !.last = r, !.full = r2]
  /\ ev' = Event("query", 0, {}, {}, Pending)
  /\ UNCHANGED <<page, editor, drafts, history, backend, store, auth, table, nextId, appClock, dbClock,
                 calls, created>>

\* search(so), and search(so) again
SearchTwice(so) ==
  /\ q.phase = "none"
  /\ \E r \in Search(backend, table, so) :
       \E r2 \in Search(backend, table, so) :
         q' = [q EXCEPT !.phase = "searchTwice", !.o = so, !.last = r, !.full = r2]
  /\ ev' = Event("search", 0, {}, {}, Pending)
  /\ UNCHANGED <<page, editor, drafts, history, backend, store, auth, table, nextId, appClock, dbClock,
                 calls, created>>

NextRead ==
  \/ \E x \in ReadCreateInputs : ReadCreate(x)
  \/ ReadTick
  \/ ReadDbTick
  \/ \E so \in SearchInputs : SearchCall(so)
  \/ \E a \in AuthorInputs, o \in ListInputs : ListByAuthorCall(a, o)
  \/ \E o \in CountInputs : CountCall(o)
  \/ \E o \in TwiceInputs : QueryTwice(o)
  \/ SearchTwice(SearchOptions(<<>>, Undefined, UndefinedNum, UndefinedNum))

SpecRead == Init /\ [][NextRead]_vars

\* ------------------------------------------------- editor page actions
\* onMount: the Editor component is created empty; a saved draft sets title and
\* content and schedules setContent
Mount ==
  /\ page.view = "unmounted"
  /\ page' = IF drafts.stored = NoDraft
             THEN [page EXCEPT !.view = "mounted"]
             ELSE LET savedDraft == CHOOSE d \in drafts.stored : TRUE
                  IN [page EXCEPT !.view = "mounted", !.storyTitle = savedDraft.title,
                                  !.editorContent = savedDraft.content,
                                  !.toSet = drafts.stored]
  /\ editor' = <<>>
  /\ UNCHANGED <<drafts, q, history, backend, store, auth, table, nextId, appClock, dbClock, calls, ev, created>>

\* the editor's document becomes text; with emit, Tiptap calls onUpdate
EditorSet(pg, text, emit) ==
  /\ editor' = text
  /\ IF emit
     THEN /\ page' = HandleEditorUpdate(pg, GetHTML(text), text)
          /\ drafts' = MarkDirty(drafts, pg.storyTitle, GetHTML(text))
     ELSE /\ page' = pg
          /\ UNCHANGED drafts

\* the timeout set by onMount: editorRef?.setContent(savedDraft.content);
\* whether setContent emits an update is the Tiptap version's default
SetSavedContent ==
  /\ page.toSet # NoDraft
  /\ IF editor = NoEditor
     THEN page' = [page EXCEPT !.toSet = NoDraft] /\ UNCHANGED <<editor, drafts>>
     ELSE \E emit \in BOOLEAN :
            EditorSet([page EXCEPT !.toSet = NoDraft],
                      ParseHTML((CHOOSE d \in page.toSet : TRUE).content), emit)
  /\ UNCHANGED <<q, history, backend, store, auth, table, nextId, appClock, dbClock, calls, ev, created>>

\* the user types a piece of text at the end of the document
Type(piece) ==
  /\ editor # NoEditor
  /\ Len(editor) < MaxPieces
  /\ EditorSet(page, Append(editor, piece), TRUE)
  /\ UNCHANGED <<q, history, backend, store, auth, table, nextId, appClock, dbClock, calls, ev, created>>

\* the user deletes the last piece
Backspace ==
  /\ editor # NoEditor
  /\ editor # <<>>
  /\ EditorSet(page, SubSeq(editor, 1, Len(editor) - 1), TRUE)
  /\ UNCHANGED <<q, history, backend, store, auth, table, nextId, appClock, dbClock, calls, ev, created>>

\* the title input: bind:value, then handleTitleChange
TitleInput(title) ==
  /\ page.view = "mounted" /\ ~page.isPreviewMode
  /\ title # page.storyTitle
  /\ page' = [page EXCEPT !.storyTitle = title]
  /\ drafts' = MarkDirty(drafts, title, page.editorContent)
  /\ UNCHANGED <<editor, q, history, backend, store, auth, table, nextId, appClock, dbClock, calls, ev, created>>

\* togglePreview: the Preview button is disabled at wordCount 0; in preview the
\* Editor component is not rendered, and Back to Editor creates a new one
TogglePreview ==
  /\ page.view = "mounted"
  /\ IF page.isPreviewMode
     THEN editor' = <<>>
     ELSE page.wordCount # 0 /\ editor' = NoEditor
  /\ page' = [page EXCEPT !.isPreviewMode = ~page.isPreviewMode]
  /\ UNCHANGED <<drafts, q, history, backend, store, auth, table, nextId, appClock, dbClock, calls, ev, created>>

\* clearDraft, confirmed: drafts.clear(), title and content emptied,
\* editorRef?.clear(); whether clearContent emits an update is the Tiptap
\* version's default
ClearDraft ==
  /\ page.view = "mounted" /\ ~page.isPreviewMode
  /\ page.storyTitle # <<>> \/ page.editorContent # <<>>
  /\ \E emit \in BOOLEAN :
       LET cleared == [page EXCEPT !.storyTitle = <<>>, !.editorContent = <<>>]
           removed == [drafts EXCEPT !.stored = NoDraft]
       IN /\ editor' = <<>>
          /\ page' = IF emit THEN HandleEditorUpdate(cleared, GetHTML(<<>>), <<>>) ELSE cleared
          /\ drafts' = IF emit THEN MarkDirty(removed, <<>>, GetHTML(<<>>)) ELSE removed
  /\ UNCHANGED <<q, history, backend, store, auth, table, nextId, appClock, dbClock, calls, ev, created>>

\* the auto-save timer fires, AUTO_SAVE_INTERVAL after the last markDirty
AutoSave ==
  /\ drafts.timer # NoDraft
  /\ drafts' = IF drafts.pendingChanges
               THEN [stored |-> drafts.timer, timer |-> NoDraft, pendingChanges |-> FALSE]
               ELSE [drafts EXCEPT !.timer = NoDraft]
  /\ UNCHANGED <<page, editor, q, history, backend, store, auth, table, nextId, appClock, dbClock, calls, ev, created>>

\* handleLogout: saveNow when there is a title or content, then the page is left
Logout ==
  /\ page.view = "mounted"
  /\ drafts' = IF page.storyTitle # <<>> \/ page.editorContent # <<>>
               THEN [stored |-> DraftOf(page.storyTitle, page.editorContent),
                     timer |-> NoDraft, pendingChanges |-> FALSE]
               ELSE drafts
  /\ page' = [PageInit EXCEPT !.view = "left"]
  /\ editor' = NoEditor
  /\ UNCHANGED <<q, history, backend, store, auth, table, nextId, appClock, dbClock, calls, ev, created>>

Titles == {<<>>, <<" ">>, <<" ", "x">>}

NextEditor ==
  \/ Mount
  \/ SetSavedContent
  \/ \E piece \in TextPieces : Type(piece)
  \/ Backspace
  \/ \E title \in Titles : TitleInput(title)
  \/ TogglePreview
  \/ ClearDraft
  \/ AutoSave
  \/ Logout

\* a visit of the editor page; the page makes no index call
EditorPageInit ==
  /\ IndexInit /\ backend = "sqlite"
  /\ page = PageInit
  /\ editor = NoEditor
  /\ drafts \in {DraftStore(s) : s \in StoredDrafts}
  /\ StoreInit
  /\ AuthInit

SpecEditor == EditorPageInit /\ [][NextEditor]_vars

\* -------------------------------------------- content store, calls interleaved
\* keys and contents
Key_ax == <<"a", "/", "x", ".", "m", "d">>
Key_a == <<"a">>
Key_ab == <<"a", "b", ".", "m", "d">>
Key_b == <<"b", ".", "m", "d">>
Text_ab == <<"a", "b">>
Text_c == <<"c">>
Text_lone == <<"HS">>
Text_pair == <<"HS", "LS">>

NoOptions == ListOptions(UndefinedText, UndefinedNum, UndefinedText)

\* what the callers of the interleaved calls pass
ConcKeys == {Key_ax, Key_b}
ConcTexts == {Text_ab, Text_c}

\* either backend, empty; its file system lists names in ascending order
StoreAnyInit ==
  /\ IndexInit /\ backend = "sqlite"
  /\ EditorInit
  /\ store \in {EmptyStore(kind, <<>>) : kind \in StoreKinds}
  /\ AuthInit

\* a caller makes a call, or a call in flight takes its next step
StoreCall(c, keys, texts, options) ==
  \/ \E key \in keys : StoreGetCall(c, key)
  \/ \E key \in keys : StoreExistsCall(c, key)
  \/ \E key \in keys : StoreGetMetadataCall(c, key)
  \/ \E key \in keys, text \in texts : S3PutCall(c, key, text)
  \/ \E key \in keys, text \in texts : LocalPutStart(c, key, text)
  \/ LocalPutOpen(c)
  \/ LocalPutWrite(c)
  \/ \E key \in keys : LocalDeleteCall(c, key)
  \/ \E key \in keys : S3DeleteStart(c, key)
  \/ S3DeleteSend(c)
  \/ \E opts \in options : S3ListCall(c, opts)
  \/ \E opts \in options : LocalListStart(c, opts)
  \/ LocalListStep(c)

NextStore == \E c \in Callers : StoreCall(c, ConcKeys, ConcTexts, {NoOptions})

SpecStore == StoreAnyInit /\ [][NextStore]_vars

\* ------------------------------------ content store, one call at a time
SeqKeys == {Key_ax, Key_a, Key_ab}
SeqTexts == {Text_ab, Text_lone, Text_pair}

StoreTick == StoreTickWithin(MaxTime)

\* list with no option, or with a prefix: a directory name, with and without
\* the slash, and the first letters of a file name
SeqPrefixes == {<<"a">>, <<"a", "/">>, <<"a", "b">>}
SeqOptions ==
  {NoOptions} \cup {ListOptions(prefix, UndefinedNum, UndefinedText) : prefix \in SeqPrefixes}

NextStoreSeq ==
  \/ StoreCall(1, SeqKeys, SeqTexts, SeqOptions)
  \/ StoreTick

SpecStoreSeq == StoreAnyInit /\ [][NextStoreSeq]_vars

\* ------------------------- content store, a caller pages through the list
Key_c == <<"c">>
ListKeys == {Key_ax, Key_ab, Key_b, Key_c}
ListTexts == {Text_c}
PageSizes == 1..MaxPageSize

\* the file system lists names in ascending order, or in another order
ListOrders == {<<>>, <<Key_b, Key_ab, Key_a>>}

ListInit ==
  /\ IndexInit /\ backend = "sqlite"
  /\ EditorInit
  /\ store \in {[EmptyStore("local", ord) EXCEPT !.session.phase = "idle"] :
                  ord \in ListOrders}
  /\ AuthInit

\* no listing is half way
NotPaging == store.session.phase # "paging" /\ store.calls[1] = StoreIdle

\* list({maxResults: m})
ListFirst ==
  /\ NotPaging
  /\ \E k \in PageSizes : LocalListStart(1, ListOptions(UndefinedText, k, UndefinedText))

\* list with the continuationToken of the page before
ListNext ==
  /\ store.session.phase = "paging"
  /\ LET last == CHOOSE x \in store.session.last.val : TRUE
     IN LocalListStart(1, ListOptions(UndefinedText, store.session.opts.maxResults,
                                      last.continuationToken))

ListPut == NotPaging /\ \E key \in ListKeys, text \in ListTexts : LocalPutStart(1, key, text)

ListDelete == NotPaging /\ \E key \in ListKeys : LocalDeleteCall(1, key)

ListTick == NotPaging /\ StoreTickWithin(MaxTime)

NextList ==
  \/ ListFirst
  \/ ListNext
  \/ LocalListStep(1)
  \/ ListPut
  \/ LocalPutOpen(1)
  \/ LocalPutWrite(1)
  \/ ListDelete
  \/ ListTick

SpecList == ListInit /\ [][NextList]_vars

\* ------------------------------------- index, two updates of one record
TitleOther == [NoField EXCEPT !.title = <<"c">>]

\* partials that name no field, one field (the title with two values), and
\* all fields
ConcUpdateInputs == {NoField, TitleOnly, TitleOther, ExcerptOnly, EmptyTags, AllFields}

ConcInit ==
  /\ backend \in Backends
  /\ table = <<>>
  /\ nextId = 1
  /\ appClock = 0
  /\ dbClock = 0
  /\ calls = [c \in Callers |-> Idle]
  /\ ev = Event("init", 0, {}, {}, Pending)
  /\ created = <<>>
  /\ q = NotQuerying
  /\ history = [NoHistory EXCEPT !.watch = TRUE]
  /\ EditorInit
  /\ StoreInit
  /\ AuthInit

\* the two update calls on the stored record
ConcUpdate ==
  /\ Len(history.updates) < 2
  /\ \E id \in DOMAIN table, p \in ConcUpdateInputs :
       \/ PostgresUpdate(id, p)
       \/ \E c \in Callers : UpdateStart(c, id, p)

NextConc ==
  \/ \E x \in UpdateCreateInputs : UpdateCreate(x)
  \/ ConcUpdate
  \/ \E c \in Callers : SqliteUpdateWrite(c)
  \/ \E c \in Callers : DynamoUpdateWrite(c)
  \/ \E c \in Callers : DynamoUpdateRead(c)
  \/ Tick
  \/ DbTick

SpecConc == ConcInit /\ [][NextConc]_vars

\* ---------------------------------------- index, get with any id string
GetIds == Ids \cup {MalformedId}

NextGet ==
  \/ \E x \in UpdateCreateInputs : Create(x)
  \/ \E id \in GetIds : Get(id)
  \/ \E id \in Ids : SqlDelete(id)
  \/ \E id \in Ids : DynamoDeleteStart(1, id)
  \/ DynamoDeleteWrite(1)
  \/ Tick
  \/ DbTick

SpecGet == Init /\ [][NextGet]_vars

\* ----------------------------------------------- auth, calls interleaved
MaxClients == 2

\* the page loads with or without a session in the browser's storage
AuthAnyInit ==
  /\ IndexInit /\ backend = "sqlite"
  /\ EditorInit
  /\ StoreInit
  /\ auth \in {AuthModule(browser) : browser \in {0, 1}}

NextAuth ==
  \/ GuardMount
  \/ \E c \in Callers :
       \/ InitAuthClientCall(c)
       \/ InitSessionCall(c)
       \/ LoginCall(c)
       \/ AuthInitCall(c)
       \/ AuthLoginCall(c)
       \/ AuthLogoutCall(c)
       \/ RefreshUserCall(c)
       \/ \E ok \in BOOLEAN : LoadDoneWithin(c, ok, MaxClients)
       \/ \E ok \in BOOLEAN : SessionDone(c, ok)
       \/ \E ok \in BOOLEAN : ProfileDone(c, ok)
       \/ \E ok \in BOOLEAN : AuthorizeDone(c, ok)
       \/ \E ok \in BOOLEAN : SignOutDone(c, ok)

SpecAuth == AuthAnyInit /\ [][NextAuth]_vars

\* ------------------------------------------- draft store, with the time
AUTO_SAVE_INTERVAL == 5000
MaxDraftTime == 15000
MaxMarks == 3

\* no run of markDirty calls; a run: n calls (counted up to MaxMarks), each
\* less than AUTO_SAVE_INTERVAL after the one before and no other draft call
\* since the first; last, title, content: the latest call; fired: the timers
\* that have fired since the first
NoRun == [n |-> 0, last |-> 0, title |-> <<>>, content |-> <<>>, fired |-> 0]

\* the last clear or saveNow call and the draft it left, until the next
\* markDirty, save or saveNow call
NoExplicit == [call |-> "none", draft |-> NoDraft]

\* the draft store as created, at time now = 0 (ms): the localStorage entry,
\* the store's value, the armed timeouts (title, content, due), pendingChanges
TimedDraftStore(s) ==
  [stored |-> s, value |-> NoDraft, timer |-> {}, pendingChanges |-> FALSE, now |-> 0,
   step |-> "created", run |-> NoRun, explicit |-> NoExplicit]

\* save(title, content), in the browser, localStorage taking it
SaveDraft(d, title, content) ==
  [d EXCEPT !.stored = DraftOf(title, content), !.value = DraftOf(title, content),
            !.pendingChanges = FALSE]

\* a markDirty that leaves the armed timer armed
MarkDirtyAtKeeping(d, title, content) ==
  [d EXCEPT !.pendingChanges = TRUE,
            !.timer = @ \cup {[title |-> title, content |-> content,
                               due |-> d.now + AUTO_SAVE_INTERVAL]}]

\* markDirty(title, content) at time d.now: clearTimeout of the armed timer,
\* setTimeout of a new one
MarkDirtyAt(d, title, content) ==
  [d EXCEPT !.pendingChanges = TRUE,
            !.timer = {[title |-> title, content |-> content,
                        due |-> d.now + AUTO_SAVE_INTERVAL]}]

\* the run after a markDirty call
RunMarked(d, title, content) ==
  LET extends == d.run.n > 0 /\ d.now - d.run.last < AUTO_SAVE_INTERVAL
  IN [n |-> IF extends THEN Min(d.run.n + 1, MaxMarks) ELSE 1,
      last |-> d.now, title |-> title, content |-> content,
      fired |-> IF extends THEN d.run.fired ELSE 0]

\* the title and content of the calls made
DraftArgs == {[title |-> <<"t">>, content |-> <<"c">>],
              [title |-> <<"u">>, content |-> <<"d">>]}

\* a draft an earlier visit may have left, or none
TimedDraftInit ==
  /\ IndexInit /\ backend = "sqlite"
  /\ page = PageInit
  /\ editor = NoEditor
  /\ drafts \in {TimedDraftStore(s) : s \in {NoDraft, DraftOf(<<"s">>, <<"c">>)}}
  /\ StoreInit
  /\ AuthInit

\* the variables the draft store leaves alone
draftRest == <<page, editor, q, history, backend, store, auth, table, nextId, appClock, dbClock,
               calls, ev, created>>

\* drafts.markDirty(title, content)
DraftMarkDirty(a) ==
  /\ drafts' = [MarkDirtyAt(drafts, a.title, a.content) EXCEPT
                  !.step = "markDirty", !.run = RunMarked(drafts, a.title, a.content),
                  !.explicit = NoExplicit]
  /\ UNCHANGED draftRest

\* a timeout set by markDirty is due: with pendingChanges, save
DraftTimerFires ==
  \E t \in drafts.timer :
    /\ t.due <= drafts.now
    /\ LET fired == [drafts EXCEPT !.timer = @ \ {t}, !.step = "timer",
                                   !.run.fired = IF drafts.run.n > 0 THEN @ + 1 ELSE @]
       IN drafts' = IF drafts.pendingChanges THEN SaveDraft(fired, t.title, t.content)
                    ELSE fired
    /\ UNCHANGED draftRest

\* drafts.save(title, content)
DraftSave(a) ==
  /\ drafts' = [SaveDraft(drafts, a.title, a.content) EXCEPT
                  !.step = "save", !.run = NoRun, !.explicit = NoExplicit]
  /\ UNCHANGED draftRest

\* drafts.saveNow(title, content): clearTimeout, then save
DraftSaveNow(a) ==
  /\ drafts' = [SaveDraft([drafts EXCEPT !.timer = {}], a.title, a.content) EXCEPT
                  !.step = "saveNow", !.run = NoRun,
                  !.explicit = [call |-> "saveNow", draft |-> DraftOf(a.title, a.content)]]
  /\ UNCHANGED draftRest

\* drafts.clear(): removeItem, set(null)
DraftClear ==
  /\ drafts' = [drafts EXCEPT !.stored = NoDraft, !.value = NoDraft,
                              !.step = "clear", !.run = NoRun,
                              !.explicit = [call |-> "clear", draft |-> NoDraft]]
  /\ UNCHANGED draftRest

\* drafts.load(): the store's value becomes the localStorage entry there is
DraftLoad ==
  /\ drafts' = [drafts EXCEPT !.value = IF drafts.stored # NoDraft THEN drafts.stored ELSE @,
                              !.step = "load", !.run = NoRun]
  /\ UNCHANGED draftRest

\* time passes, up to the next timeout due and no further than MaxDraftTime
DraftTick(ms) ==
  /\ \A t \in drafts.timer : drafts.now < t.due
  /\ LET next == IF \E t \in drafts.timer : t.due <= drafts.now + ms
                 THEN CHOOSE x \in {t.due : t \in drafts.timer} :
                        \A t \in drafts.timer : x <= t.due
                 ELSE drafts.now + ms
     IN /\ next <= MaxDraftTime
        /\ drafts' = [drafts EXCEPT !.now = next, !.step = "tick"]
  /\ UNCHANGED draftRest

DraftTicks == {AUTO_SAVE_INTERVAL \div 2, AUTO_SAVE_INTERVAL - 1}

NextDraft ==
  \/ \E a \in DraftArgs : DraftMarkDirty(a)
  \/ DraftTimerFires
  \/ \E a \in DraftArgs : DraftSave(a)
  \/ \E a \in DraftArgs : DraftSaveNow(a)
  \/ DraftClear
  \/ DraftLoad
  \/ \E ms \in DraftTicks : DraftTick(ms)

SpecDraft == TimedDraftInit /\ [][NextDraft]_vars

\* ------------------------------------------------------------------ claims
Meta(t, id) == ToMetadata(backend, t[id])

KeyTaken(t, k) == \E i \in DOMAIN t : Meta(t, i).storageKey = k

\* C1: when a record with storageKey k exists, a create call with storageKey k
\* fails with a ConflictError, adds no record and leaves the table as it was.
C1_DuplicateKeyConflicts ==
  [][\A x \in CreateInputs :
       (ev'.op = "create" /\ ev'.x = {x} /\ KeyTaken(table, x.storageKey))
         => (ev'.out.kind = "ConflictError" /\ table' = table)]_vars

\* C2: no reachable index state holds two records with the same storageKey
\* (of the create calls that carry one storageKey at most one succeeds).
C2_NoTwoRecordsShareKey ==
  \A i \in DOMAIN table : \A j \in DOMAIN table :
    (i # j /\ Meta(table, i).storageKey # Undefined)
      => Meta(table, i).storageKey # Meta(table, j).storageKey

SameInputFields(r, x) ==
  /\ r.title = x.title
  /\ r.authorDid = x.authorDid
  /\ r.authorName = x.authorName
  /\ r.storageKey = x.storageKey
  /\ r.wordCount = x.wordCount
  /\ r.excerpt = x.excerpt
  /\ r.tags = x.tags

\* C3: create(x) returns a record r, and a get(r.id) issued afterwards with no
\* update or delete of r.id in between returns a record equal to r, whose
\* title, authorDid, authorName, storageKey, wordCount, excerpt and tags are
\* those of x.
C3_CreateThenGet ==
  /\ (ev.op = "create" /\ ev.out.kind # "ConflictError")
       => /\ ev.out.kind = "record"
          /\ ev.id \in DOMAIN created
          /\ ev.out.recs = created[ev.id].rec
  /\ (ev.op = "get" /\ ev.id \in DOMAIN created)
       => /\ ev.out = Out("record", created[ev.id].rec)
          /\ \A r \in ev.out.recs :
               r.id = ev.id /\ SameInputFields(r, created[ev.id].x)

C3_Witness ==
  /\ ev.op = "get"
  /\ ev.id \in DOMAIN created
  /\ created[ev.id].x.tags = <<>>

\* C4: delete(id) returns true exactly when a record with that id existed and
\* the call removed it; after it returned true, get(id) returns absent and a
\* second delete(id) returns false, raising no error.
C4_DeleteOnce ==
  [][/\ ev'.op = "delete"
        => /\ ev'.out.kind \in {"true", "false"}
           /\ ev'.out.kind = "true" <=> ev'.id \in DOMAIN table
           /\ ev'.id \notin DOMAIN table'
           /\ \A i \in DOMAIN table \ {ev'.id} : i \in DOMAIN table' /\ table'[i] = table[i]
     /\ \A i \in 1..(nextId - 1) :
          i \notin DOMAIN table
            => /\ i \notin DOMAIN table'
               /\ (ev'.op = "get" /\ ev'.id = i) => ev'.out = Out("null", {})
               /\ (ev'.op = "delete" /\ ev'.id = i) => ev'.out = Out("false", {})]_vars

\* a delete of an id that was created and deleted before has returned false
C4_Witness ==
  /\ ev.op = "delete"
  /\ ev.out.kind = "false"
  /\ ev.id < nextId

\* C5: update(id, {title: T}) on an existing id changes only title and
\* updatedAt of that record, every other field and every other record stays,
\* and updatedAt after the call is strictly greater than before it.
C5_TitleUpdateFrame ==
  [][(ev'.op = "update" /\ ev'.p = {TitleOnly} /\ ev'.id \in DOMAIN table)
       => /\ DOMAIN table' = DOMAIN table
          /\ \A i \in DOMAIN table \ {ev'.id} : table'[i] = table[i]
          /\ Meta(table', ev'.id) =
               [Meta(table, ev'.id) EXCEPT !.title = TitleOnly.title,
                                           !.updatedAt = Meta(table', ev'.id).updatedAt]
          /\ Meta(table', ev'.id).updatedAt > Meta(table, ev'.id).updatedAt]_vars

\* the records a query with options o is to select: those of the author, when
\* one is given, that carry every requested tag
Matching(t, o) ==
  { id \in DOMAIN t :
      /\ o.authorDid # Undefined => Meta(t, id).authorDid = o.authorDid
      /\ o.tags # UndefinedTags => EveryTagIncluded(Meta(t, id).tags, o.tags) }

\* the sort key of a record under options o, and the orders of the matching
\* records that respect it
KeyBefore(m1, m2, o) ==
  LET less(x, y) == CASE o.sortBy = "title" -> TextLess(x.title, y.title)
                      [] o.sortBy = "updatedAt" -> x.updatedAt < y.updatedAt
                      [] o.sortBy = "createdAt" -> x.createdAt < y.createdAt
                      [] OTHER -> x.publishedAt < y.publishedAt
  IN IF o.sortOrder = "asc" THEN ~less(m2, m1) ELSE ~less(m1, m2)

Ordered(t, o) ==
  { ord \in Perms(Matching(t, o)) :
      \A i \in 1..Len(ord) : \A j \in 1..Len(ord) :
        i < j => KeyBefore(Meta(t, ord[i]), Meta(t, ord[j]), o) }

\* the offset of the page read last
LastOffset == q.offset - LimitOf(q.o)

\* C6: over a fixed dataset, the pages read at offsets 0, limit, 2*limit, ...
\* until one reports hasMore = false, put end to end, are the sequence of
\* records one query with the same filter and sort and a covering limit returns.
C6_PagesConcatenate ==
  q.phase = "done" => q.acc = StoryIds(q.full.stories)

\* C7: on every page, total is the number of all records matching the filter,
\* whatever limit and offset are, and hasMore is offset + returned < total.
C7_TotalAndHasMore ==
  q.pages > 0 =>
    /\ q.last.total = Cardinality(Matching(table, q.o))
    /\ q.last.hasMore = (LastOffset + Len(q.last.stories) < q.last.total)

C9_PageOfOrdering ==
  q.pages > 0 =>
    \E ord \in Ordered(table, q.o) :
      StoryIds(q.last.stories) = Slice(ord, LastOffset, LastOffset + LimitOf(q.o))

\* C10: a query filtered by tags T returns exactly the records whose tag list
\* has every element of T as a member, on each of the three backends.
C10_TagFilterExact ==
  (q.phase = "done" /\ q.o.tags # UndefinedTags) =>
    {q.full.stories[i].id : i \in 1..Len(q.full.stories)} = Matching(table, q.o)

\* the ids of the stories of a result
IdSet(r) == {r.stories[i].id : i \in 1..Len(r.stories)}

Upper(c) ==
  CASE c = "a" -> "A" [] c = "b" -> "B" [] c = "c" -> "C" [] c = "f" -> "F"
    [] c = "g" -> "G" [] c = "i" -> "I" [] c = "m" -> "M" [] c = "s" -> "S"
    [] OTHER -> c

ToUpperCase(s) == [i \in 1..Len(s) |-> Upper(s[i])]

\* query occurs in the title or in the excerpt of record m, letters compared
\* without case
TextMatch(m, query) ==
  \/ Includes(ToLowerCase(m.title), ToLowerCase(query))
  \/ m.excerpt # UndefinedText /\ Includes(ToLowerCase(m.excerpt), ToLowerCase(query))

\* the records a search with options so is to return
SearchMatching(t, so) ==
  { id \in DOMAIN t :
      /\ TextMatch(Meta(t, id), so.query)
      /\ so.authorDid # Undefined => Meta(t, id).authorDid = so.authorDid }

\* C11: search({query}) returns a record exactly when query occurs somewhere in
\* its title or its excerpt, letters compared without case; the query in upper
\* case and in lower case gives the same records.
C11_SearchSubstring ==
  (q.phase = "search" /\ q.o.authorDid = Undefined /\ q.o.limit = UndefinedNum) =>
    /\ IdSet(q.last) = SearchMatching(table, q.o)
    /\ \A r \in Search(backend, table, [q.o EXCEPT !.query = ToUpperCase(q.o.query)]) :
         IdSet(r) = IdSet(q.last)
    /\ \A r \in Search(backend, table, [q.o EXCEPT !.query = ToLowerCase(q.o.query)]) :
         IdSet(r) = IdSet(q.last)

\* C12: on the same records and with the same options, search returns the same
\* ids on SQLite, Postgres and DynamoDB, for every query string, also one with
\* the characters % and _: on each backend they are the ids of the records
\* that contain the query.
C12_SearchSameOnAllBackends ==
  (q.phase = "search" /\ q.o.limit = UndefinedNum) =>
    IdSet(q.last) = SearchMatching(table, q.o)

\* C13: update never creates a record. An update call made for an id without a
\* record returns null and leaves the table as it was; and however an
\* update(id, ...) call interleaves with a delete(id) call that returns true,
\* no record is stored under id once no call on id is in flight.
C13_UpdateNeverCreates ==
  [][/\ (ev'.op = "update" /\ calls' = calls /\ ev'.id \notin DOMAIN table)
          => (ev'.out.kind = "null" /\ table' = table)
     /\ \A id \in history'.deleted :
          (\A c \in Callers : calls'[c].id # id) => id \notin DOMAIN table']_vars

\* C14: every update(id, partial) call for an existing id sets the record's
\* updatedAt to the time of the call, also when partial names no field or
\* gives the values already stored.
C14_UpdateRefreshesUpdatedAt ==
  [][(ev'.op = "update" /\ ev'.id \in DOMAIN table)
       => /\ ev'.id \in DOMAIN table'
          /\ Meta(table', ev'.id).updatedAt = appClock]_vars

\* the fields of a stored record that are set once
Identity(t, id) ==
  LET m == Meta(t, id)
  IN <<m.id, m.authorDid, m.storageKey, m.createdAt>>

\* C15: no step of the index changes the id, authorDid, storageKey or
\* createdAt of a record that is stored before and after the step, whatever
\* update calls are made, with any of the updatable fields named.
C15_UpdateKeepsIdentity ==
  [][\A id \in DOMAIN table \cap DOMAIN table' :
       Identity(table', id) = Identity(table, id)]_vars

\* an update naming every field has been applied, at a later time than the
\* record's creation
C15_Witness ==
  /\ ev.op = "update"
  /\ ev.p = {AllFields}
  /\ ev.out.kind = "record"
  /\ ev.id \in DOMAIN table
  /\ Meta(table, ev.id).title = Str_b
  /\ Meta(table, ev.id).updatedAt # Meta(table, ev.id).createdAt

\* C16: over the whole history of the index, deletes included, no storageKey
\* has been given to two different ids: a create whose storageKey an earlier
\* record had, stored or deleted, never returns a record with a new id.
C16_KeyNeverReused ==
  \A a \in history.keys : \A b \in history.keys : a[1] = b[1] => a[2] = b[2]

\* the orders of the records matching a search: publishedAt descending
SearchOrdered(t, so) ==
  { ord \in Perms(SearchMatching(t, so)) :
      \A i \in 1..Len(ord) : \A j \in 1..Len(ord) :
        i < j => Meta(t, ord[i]).publishedAt >= Meta(t, ord[j]).publishedAt }

\* C17: search returns only records that match the text query and, when
\* authorDid is given, that author; total is the number of all such records,
\* the page is positions [offset, offset + limit) of them ordered by
\* publishedAt descending, and hasMore = (offset + returned count < total).
C17_SearchPage ==
  q.phase = "search" =>
    /\ IdSet(q.last) \subseteq SearchMatching(table, q.o)
    /\ q.last.total = Cardinality(SearchMatching(table, q.o))
    /\ \E ord \in SearchOrdered(table, q.o) :
         StoryIds(q.last.stories) = Slice(ord, OffsetOf(q.o), OffsetOf(q.o) + LimitOf(q.o))
    /\ q.last.hasMore = (OffsetOf(q.o) + Len(q.last.stories) < q.last.total)

\* C18: for every authorDid a, the empty string included, and all options o,
\* listByAuthor(a, o) and query({...o, authorDid: a}) on the same index state
\* can return the same results: the same stories in the same order, the same
\* total and the same hasMore.
C18_ListByAuthorIsQuery ==
  q.phase = "listByAuthor" =>
    ListByAuthor(backend, table, q.o.authorDid, q.o) = Query(backend, table, q.o)

\* C19: for all filter options f (authorDid, tags), count(f) equals the total
\* of query({...f, limit: 1}) on the same index state, and both equal the
\* number of all records matching f.
C19_CountIsQueryTotal ==
  q.phase = "count" =>
    /\ q.last = q.full.total
    /\ q.last = Cardinality(Matching(table, q.o))

\* C20: on an unchanged dataset two identical query calls, or two identical
\* search calls, return the stories in the same order, also when several
\* matching records have equal values of the sort key.
C20_RepeatedCallSameOrder ==
  q.phase \in {"queryTwice", "searchTwice"} =>
    StoryIds(q.last.stories) = StoryIds(q.full.stories)

\* no content store call is in flight
StoreAtRest == \A c \in Callers : store.calls[c] = StoreIdle

\* C21: on each content store backend, for every key k and text c: after
\* put(k, c) has returned, get(k) returns exactly c and exists(k) is true; a
\* following delete(k) returns true, and after it get(k) returns absent and
\* exists(k) is false.
C21_PutGetDelete ==
  StoreAtRest =>
    \A k \in DOMAIN store.live :
      /\ StoreGet(store, k) = StoreOut("content", {store.live[k]})
      /\ StoreExists(store, k).kind = "true"
      /\ StoreDelete(store, k).out.kind = "true"
      /\ StoreGet(StoreDelete(store, k).st, k).kind = "null"
      /\ StoreExists(StoreDelete(store, k).st, k).kind = "false"

\* C22: a delete(k) call returns true only when it removed a stored blob, and
\* false only when none was stored; so of two delete(k) calls on one stored
\* blob with no put in between, made one after the other or interleaved,
\* exactly one returns true.
C22_DeleteTrueOnce ==
  [][store'.ev.op = "delete" =>
       /\ store'.ev.out.kind = "true" =>
            /\ store'.ev.key \in DOMAIN store.files
            /\ store'.ev.key \notin DOMAIN store'.files
       /\ store'.ev.out.kind = "false" => store'.ev.key \notin DOMAIN store.files]_vars

\* C23: for every key k under which no blob is stored, a key that is a path
\* prefix of a stored key included: get(k) returns absent, delete(k) returns
\* false, exists(k) returns false and getMetadata(k) returns absent; none of
\* them raises an error or changes the store.
C23_NotFoundIsNormal ==
  StoreAtRest =>
    \A k \in SeqKeys \ DOMAIN store.files :
      /\ StoreGet(store, k).kind = "null"
      /\ StoreDelete(store, k) = [st |-> store, out |-> StoreOut("false", {})]
      /\ StoreExists(store, k).kind = "false"
      /\ StoreGetMetadata(store, k).kind = "null"

\* a step that returns from put(k, c2), seen against the contract of put
PutReturns ==
  store'.ev.op = "put" =>
    LET c == store'.ev.caller
        k == store'.ev.key
    IN /\ k \in DOMAIN store.live => store'.ev.out.kind # "error"
       /\ \A k2 \in DOMAIN store.files \ {k} :
            k2 \in DOMAIN store'.files /\ store'.files[k2] = store.files[k2]
       /\ ( /\ store'.ev.out.kind = "void"
            /\ store.calls[c].alone
            /\ \A d \in Callers \ {c} : store.calls[d] = StoreIdle )
            => StoreGet(store', k) = StoreOut("content", {store'.ev.text})
       /\ (store'.ev.out.kind = "void" /\ StoreAtRest' /\ k \in DOMAIN store'.files)
            => \E t \in ConcTexts \cup SeqTexts :
                 StoreGet(store', k) = StoreOut("content", {t})

\* C24: put(k, c2) on a key that holds content succeeds without error and
\* leaves the content of every other key as it was; after a put that ran with
\* no other call in between, get(k) returns c2; after puts that ran
\* interleaved, the content of k is the text of one of them.
C24_PutOverwrites == [][PutReturns]_vars

\* the ".md" files under the base directory
ListedKeys(st) == {k \in DOMAIN st.files : EndsWith(Basename(k), <<".", "m", "d">>)}

NoRepeat(s) == \A i \in 1..Len(s) : \A j \in 1..Len(s) : s[i] = s[j] => i = j

\* C25: local store, fixed set of blobs, page size m >= 1: every page of
\* list({maxResults: m}) followed through its continuation tokens has at most
\* m files, a page carries a continuationToken exactly when its hasMore is
\* true, and when hasMore is false the pages together hold every listed file
\* exactly once.
C25_PagingVisitsOnce ==
  [][(store'.ev.op = "list" /\ store'.ev.out.kind # "pending" /\ store.kind = "local")
       => /\ store'.ev.out.kind = "list"
          /\ LET r == CHOOSE x \in store'.ev.out.val : TRUE
             IN /\ Len(r.files) <= store'.ev.opts.maxResults
                /\ (r.continuationToken # UndefinedText) <=> r.hasMore
                /\ store'.session.phase = (IF r.hasMore THEN "paging" ELSE "done")
                /\ ~r.hasMore =>
                     /\ NoRepeat(store'.session.acc)
                     /\ {store'.session.acc[i] : i \in 1..Len(store'.session.acc)}
                          = ListedKeys(store')]_vars

\* a listing of three files has ended with its second page
C25_Witness ==
  /\ store.kind = "local"
  /\ store.session.phase = "done"
  /\ store.session.pages = 2
  /\ Len(store.session.acc) = 3
  /\ store.session.opts.maxResults = 2

\* a list call with a prefix returns
PrefixListReturns ==
  /\ store'.ev.op = "list"
  /\ store'.ev.out.kind # "pending"
  /\ TruthyText(store'.ev.opts.prefix)

\* C26: on each backend list({prefix: p}) returns, over all its pages, exactly
\* the stored blobs whose key begins with the string p (so the two backends
\* return the same keys for the same stored keys and p).
C26_PrefixIsStringPrefix ==
  [][PrefixListReturns =>
       /\ store'.ev.out.kind = "list"
       /\ LET r == CHOOSE x \in store'.ev.out.val : TRUE
          IN /\ ~r.hasMore
             /\ {r.files[i].key : i \in 1..Len(r.files)}
                  = {k \in DOMAIN store.files : StartsWith(k, store'.ev.opts.prefix)}]_vars

\* C27: a list call returns every blob that was there from its start to its
\* end, or raises an error; it does not answer with a result that leaves such
\* a blob out (an empty result in particular) because something else was
\* removed while it ran.
C27_ListNotEmptiedByFailure ==
  [][(store'.ev.op = "list" /\ store'.ev.out.kind # "pending")
       => \/ store'.ev.out.kind = "error"
          \/ LET r == CHOOSE x \in store'.ev.out.val : TRUE
                 p == store'.ev.opts.prefix
             IN {k \in store'.ev.during : TruthyText(p) => StartsWith(k, p)}
                  \subseteq {r.files[i].key : i \in 1..Len(r.files)}]_vars

\* C28: on each backend get(id) with an id under which no record is stored,
\* whatever the form of the id string, returns null, raises no error and
\* leaves the index as it was.
C28_GetMissIsNull ==
  [][(ev'.op = "get" /\ ev'.id \notin DOMAIN table)
       => (ev'.out = Out("null", {}) /\ table' = table)]_vars

\* does a partial name a field?
Named(p, f) ==
  CASE f = "title" -> p.title # UndefinedText
    [] f = "excerpt" -> p.excerpt # UndefinedText
    [] f = "tags" -> p.tags # UndefinedTags
    [] OTHER -> p.wordCount # UndefinedNum

\* both update calls have returned
BothUpdated ==
  /\ Len(history.updates) = 2
  /\ \A c \in Callers : calls[c] = Idle
  /\ history.before # {}

\* C29: after two concurrent update calls on one stored record, a field named
\* in only one of the partials has that partial's value, a field named in both
\* has the value of one of them, and a field named in neither, updatedAt
\* aside, has the value it had before.
C29_FieldLastWriteWins ==
  BothUpdated =>
    \A id \in DOMAIN table :
      LET p1 == history.updates[1]
          p2 == history.updates[2]
          was == CHOOSE r \in history.before : TRUE
          now == Meta(table, id)
      IN /\ \A f \in {"title", "excerpt", "tags", "wordCount"} :
              CASE Named(p1, f) /\ ~Named(p2, f) -> now[f] = p1[f]
                [] ~Named(p1, f) /\ Named(p2, f) -> now[f] = p2[f]
                [] Named(p1, f) /\ Named(p2, f) -> now[f] \in {p1[f], p2[f]}
                [] OTHER -> now[f] = was[f]
         /\ \A f \in {"id", "authorDid", "authorName", "storageKey", "publishedAt",
                        "createdAt"} : now[f] = was[f]

\* the call that started first wrote its title last, over the title of the
\* call that named every field
C29_Witness ==
  /\ BothUpdated
  /\ history.updates = <<TitleOther, AllFields>>
  /\ \E id \in DOMAIN table :
       /\ Meta(table, id).title = TitleOther.title
       /\ Meta(table, id).excerpt = AllFields.excerpt

\* a record just created carries one time three times
CreatedAtOnce ==
  (ev'.op = "create" /\ ev'.out.kind = "record")
    => \A r \in ev'.out.recs : r.createdAt = r.updatedAt /\ r.updatedAt = r.publishedAt

\* no stored record was updated before it was created
UpdatedNotBeforeCreated ==
  \A id \in DOMAIN table' :
    Meta(table', id).createdAt # UndefinedNum
      => Meta(table', id).updatedAt >= Meta(table', id).createdAt

\* C30: on each backend the record create returns has createdAt = updatedAt =
\* publishedAt, and in every later state of the record updatedAt is not
\* before createdAt.
C30_TimestampsAtCreateAndAfter == [][CreatedAtOnce /\ UpdatedNotBeforeCreated]_vars

\* how often a key occurs in a page of files
Occurrences(files, k) == Cardinality({i \in 1..Len(files) : files[i].key = k})

\* a list call without prefix returns its only page
WholeListReturns ==
  /\ store'.ev.op = "list"
  /\ store'.ev.out.kind # "pending"
  /\ store'.ev.opts = NoOptions

\* every key put and not deleted since is in the result once
ListsEveryLiveKey ==
  /\ store'.ev.out.kind = "list"
  /\ LET r == CHOOSE x \in store'.ev.out.val : TRUE
     IN /\ ~r.hasMore
        /\ \A k \in DOMAIN store.live : Occurrences(r.files, k) = 1

\* C31: on each backend every key under which put succeeded and which has not
\* been deleted since appears exactly once in the complete result of list
\* called without a prefix, whatever the extension of the key.
C31_ListHasEveryKeyOnce == [][WholeListReturns => ListsEveryLiveKey]_vars

\* the three point queries on key k agree with each other and with the puts
\* and deletes made
PointQueriesAgree(k) ==
  LET there == k \in DOMAIN store.live
  IN /\ StoreExists(store, k).kind = (IF there THEN "true" ELSE "false")
     /\ StoreGet(store, k).kind = (IF there THEN "content" ELSE "null")
     /\ StoreGetMetadata(store, k).kind = (IF there THEN "meta" ELSE "null")

\* C32: in every state of a content store with no call in flight, and for
\* every key k: exists(k) is true exactly when get(k) returns content and
\* exactly when getMetadata(k) returns metadata, and that is the case exactly
\* when k was put and has not been deleted since.
C32_PointQueriesAgree ==
  StoreAtRest => \A k \in SeqKeys \cup ConcKeys : PointQueriesAgree(k)

\* caller and call of the auth step taken; made: the call was made in this step
AuthMade(op) ==
  /\ auth' # auth
  /\ auth'.ev.op = op
  /\ auth.calls[auth'.ev.caller] = AuthIdle

\* the step raises the error of a missing client and changes no auth state
RaisesNotInitialized ==
  /\ auth'.ev.kind = "error"
  /\ auth'.ev.val = NotInitialized
  /\ auth' = [auth EXCEPT !.ev = auth'.ev]

\* the client there is stays, and initAuthClient hands it back
KeepsClient ==
  /\ auth'.oauthClient = auth.oauthClient
  /\ (auth'.ev.op = "initAuthClient" /\ auth'.ev.kind = "client")
       => auth'.ev.val = auth.oauthClient

\* C33: initSession and login called while no OAuth client has been
\* initialized raise an error and change no auth state (no session is set, no
\* redirect is started); once a client is initialized, the client stays the
\* same and initAuthClient calls return it.
C33_ClientFirstAndKept ==
  [][/\ ((AuthMade("initSession") \/ AuthMade("login")) /\ auth.oauthClient = 0)
          => RaisesNotInitialized
     /\ (auth' # auth /\ auth.oauthClient # 0) => KeepsClient]_vars

\* an auth.init call completes in this step
InitCompletes ==
  /\ auth'.ev.op = "init"
  /\ auth.calls[auth'.ev.caller].op = "init"
  /\ auth'.calls[auth'.ev.caller] = AuthIdle

InRun ==
  LET r == drafts.run
  IN /\ drafts'.step = "timer" =>
          /\ r.fired = 0
          /\ drafts.now = r.last + AUTO_SAVE_INTERVAL
          /\ drafts'.stored = DraftOf(r.title, r.content)
          /\ drafts'.value = DraftOf(r.title, r.content)
     /\ drafts'.step # "timer" =>
          /\ drafts'.stored = drafts.stored /\ drafts'.value = drafts.value
          /\ r.fired = 0 => drafts'.now <= drafts'.run.last + AUTO_SAVE_INTERVAL

C38_TimerNeverOverridesExplicit ==
  drafts.explicit.call # "none" =>
    /\ drafts.stored = drafts.explicit.draft
    /\ drafts.value = drafts.explicit.draft

====
